---- MODULE Spec2Model ----
(***************************************************************************)
(* Order-modification dialogue engine of brightthread                      *)
(* (backend/src/agents/cx_order_support_agent.py) together with the order  *)
(* and inventory operations it drives (agents/tools/order_tools.py,        *)
(* services/order_service.py).                                             *)
(*                                                                         *)
(* One turn (process_message) is one atomic action: the LangGraph nodes    *)
(* are operators on a turn context and the turn is their composition       *)
(* along the edges of _build_graph.  The answers of the language model     *)
(* (intent, extraction, interpretation, policy) are the inputs of a turn   *)
(* and are drawn from small sets of raw outputs, malformed ones included.  *)
(*                                                                         *)
(* Python None is Null for strings and NoneV (the empty tuple) for         *)
(* numbers and dicts; a present number or dict x is Some(x).               *)
(***************************************************************************)
EXTENDS Integers, Sequences, FiniteSets, TLC

Null == "None"
NoneV == <<>>
Some(x) == <<x>>
IsNone(v) == v = NoneV
Val(v) == v[1]

(* ----------------------------- bounds --------------------------------- *)
\* number of PendingModifications one session may create (uuid4 ids 1..MaxMods)
MaxMods == 2

(* ------------------------- program constants -------------------------- *)
MIN_ORDER_QUANTITY == 10
MAX_LINE_ITEM_QUANTITY == 500
MIN_LEAD_TIME_CREATED == 14

\* str.lower() on the names that occur in the model
Lower(s) ==
  CASE s = "Tee" -> "tee"
    [] s = "Small" -> "small"
    [] s = "Medium" -> "medium"
    [] s = "Large" -> "large"
    [] s = "XL" -> "xl"
    [] s = "Navy" -> "navy"
    [] s = "Red" -> "red"
    [] s = "Pink" -> "pink"
    [] OTHER -> s

\* Python truthiness of a str | None
TruthyStr(s) == s /= Null /\ s /= ""

(* ------------------------- catalogue (db rows) ------------------------ *)
\* inventory rows of the one product: (size, color) per row; the slot
\* (Medium, Red) does not exist although both the size and the color do
InvIds == {1, 2, 3}
InvSize == (1 :> "Small") @@ (2 :> "Medium") @@ (3 :> "Small")
InvColor == (1 :> "Navy") @@ (2 :> "Navy") @@ (3 :> "Red")
ProductName == "Tee"
BasePrice == 5
LineItemIds == {1, 2}

InitInventory ==
  (1 :> [available_qty |-> 4, reserved_qty |-> 10]) @@
  (2 :> [available_qty |-> 20, reserved_qty |-> 0]) @@
  (3 :> [available_qty |-> 6, reserved_qty |-> 10])

InitLineItems ==
  (1 :> [order_id |-> 1, inventory_id |-> 1, quantity |-> 10, unit_price |-> 5]) @@
  (2 :> [order_id |-> 1, inventory_id |-> 3, quantity |-> 10, unit_price |-> 5])

RECURSIVE SumOver(_, _)
SumOver(f, S) ==
  IF S = {} THEN 0
  ELSE LET x == CHOOSE y \in S : TRUE IN f[x] + SumOver(f, S \ {x})

\* a total that adds the unit prices up and forgets the quantities
LineTotal_of_prices(items) ==
  SumOver([i \in DOMAIN items |-> items[i].unit_price], DOMAIN items)

\* sum(float(item.unit_price) * item.quantity for item in items)
LineTotal(items) ==
  SumOver([i \in DOMAIN items |-> items[i].unit_price * items[i].quantity],
          DOMAIN items)

TotalQuantity(items) ==
  SumOver([i \in DOMAIN items |-> items[i].quantity], DOMAIN items)

Restrict(f, S) == [x \in S |-> f[x]]

(* ------------------------ OrderService (db layer) --------------------- *)
\* result of a service or tool call: how it returned and the db it leaves
SvcResult(kind, db) == [kind |-> kind, db |-> db]

\* InventoryRepository.get_by_product_color_size: the matching rows (.one())
get_by_product_color_size(color_id, size_id) ==
  {i \in InvIds : InvColor[i] = color_id /\ InvSize[i] = size_id}

\* a check that also refuses a request for exactly what is available
insufficient_at_equal(inventory_rows, inventory_id, quantity) ==
  inventory_rows[inventory_id].available_qty <= quantity

\* inventory.available_qty < quantity, the check before every reservation
insufficient(inventory_rows, inventory_id, quantity) ==
  inventory_rows[inventory_id].available_qty < quantity

\* a release that forgets the reserved side
release_available_only(inventory_rows, inventory_id, quantity) ==
  [inventory_rows EXCEPT ![inventory_id].available_qty = @ + quantity]

\* available_qty += quantity; reserved_qty -= quantity on one row
release(inventory_rows, inventory_id, quantity) ==
  [inventory_rows EXCEPT ![inventory_id].available_qty = @ + quantity,
                         ![inventory_id].reserved_qty = @ - quantity]

\* a reservation that forgets the reserved side
reserve_available_only(inventory_rows, inventory_id, quantity) ==
  [inventory_rows EXCEPT ![inventory_id].available_qty = @ - quantity]

\* available_qty -= quantity; reserved_qty += quantity on one row
reserve(inventory_rows, inventory_id, quantity) ==
  [inventory_rows EXCEPT ![inventory_id].available_qty = @ - quantity,
                         ![inventory_id].reserved_qty = @ + quantity]

\* OrderService.modify_line_item; sizes and colors are identified by name
SvcModifyLineItem(db, line_item_id, new_quantity, new_size_id, new_color_id) ==
  LET line_item == db.line_items[line_item_id]
      old_id == line_item.inventory_id
      old_quantity == line_item.quantity
      needs_new_inventory == new_size_id /= Null \/ new_color_id /= Null
      Finish(inv, items) ==
        SvcResult("ok", [inventory |-> inv, line_items |-> items,
                         order |-> [db.order EXCEPT
                                      !.total_amount = LineTotal(items)]])
  IN
  IF needs_new_inventory THEN
    LET target_size_id == IF new_size_id /= Null THEN new_size_id
                          ELSE InvSize[old_id]
        target_color_id == IF new_color_id /= Null THEN new_color_id
                           ELSE InvColor[old_id]
        \* new_quantity or old_quantity
        target_quantity == IF ~IsNone(new_quantity) /\ Val(new_quantity) /= 0
                           THEN Val(new_quantity) ELSE old_quantity
        found == get_by_product_color_size(target_color_id, target_size_id)
    IN
    IF found = {} THEN SvcResult("NoResultFound", db)
    ELSE
      LET new_id == CHOOSE i \in found : TRUE IN
      IF insufficient(db.inventory, new_id, target_quantity)
      THEN SvcResult("InsufficientInventoryError", db)
      ELSE
        LET inv1 == release(db.inventory, old_id, old_quantity)
            inv2 == reserve(inv1, new_id, target_quantity)
            items == [db.line_items EXCEPT
                        ![line_item_id].inventory_id = new_id,
                        ![line_item_id].quantity = target_quantity,
                        ![line_item_id].unit_price = BasePrice]
        IN Finish(inv2, items)
  ELSE IF ~IsNone(new_quantity) THEN
    LET quantity_diff == Val(new_quantity) - old_quantity IN
    IF quantity_diff > 0 /\ insufficient(db.inventory, old_id, quantity_diff)
    THEN SvcResult("InsufficientInventoryError", db)
    ELSE
      LET inv1 == reserve(db.inventory, old_id, quantity_diff)
          items == [db.line_items EXCEPT
                      ![line_item_id].quantity = Val(new_quantity)]
      IN Finish(inv1, items)
  ELSE Finish(db.inventory, db.line_items)

\* a removal without the check of the minimum order quantity
SvcRemoveLineItem_unchecked(db, line_item_id) ==
  LET line_item == db.line_items[line_item_id]
      remaining == Restrict(db.line_items, DOMAIN db.line_items \ {line_item_id})
      inv1 == release(db.inventory, line_item.inventory_id, line_item.quantity)
  IN SvcResult("ok", [inventory |-> inv1, line_items |-> remaining,
                      order |-> [db.order EXCEPT
                                   !.total_amount = LineTotal(remaining)]])

\* OrderService.remove_line_item
SvcRemoveLineItem(db, line_item_id) ==
  LET line_item == db.line_items[line_item_id]
      remaining == Restrict(db.line_items, DOMAIN db.line_items \ {line_item_id})
      remaining_quantity == TotalQuantity(remaining)
  IN
  IF remaining_quantity < MIN_ORDER_QUANTITY
  THEN SvcResult("OrderValidationError", db)
  ELSE
    LET inv1 == release(db.inventory, line_item.inventory_id, line_item.quantity)
    IN SvcResult("ok", [inventory |-> inv1, line_items |-> remaining,
                        order |-> [db.order EXCEPT
                                     !.total_amount = LineTotal(remaining)]])

(* --------------------- OrderService (the whole store) ----------------- *)
\* The store holds the inventory rows, the orders (id = position; status,
\* total_amount and the status history) and the line items of all orders
\* (order_id, inventory_id, quantity, unit_price).  A call that raises is
\* rolled back with its db session (get_db_session) and leaves the store
\* as it was.
StockInit ==
  (1 :> [available_qty |-> 16, reserved_qty |-> 0]) @@
  (2 :> [available_qty |-> 12, reserved_qty |-> 0]) @@
  (3 :> [available_qty |-> 6, reserved_qty |-> 0])

EmptyStore ==
  [inventory |-> StockInit, orders |-> <<>>, line_items |-> <<>>,
   next_line_item_id |-> 1, calls |-> 0]

\* how a call on the store returned (Null or the exception) and the store
\* it leaves
StoreResult(raised, st) == [raised |-> raised, store |-> st]

\* OrderLineItemRepository.get_by_order_id
LineItemsOf(st, order_id) ==
  Restrict(st.line_items,
           {i \in DOMAIN st.line_items : st.line_items[i].order_id = order_id})

\* the rows one call on an order works on
OrderDb(st, order_id) ==
  [inventory |-> st.inventory,
   line_items |-> LineItemsOf(st, order_id),
   order |-> st.orders[order_id]]

\* the store after a call on an order left db
WithOrderDb(st, order_id, db) ==
  LET others == {i \in DOMAIN st.line_items : st.line_items[i].order_id /= order_id}
  IN [st EXCEPT !.inventory = db.inventory,
                !.orders[order_id] = db.order,
                !.line_items = [i \in others \cup DOMAIN db.line_items |->
                                  IF i \in others THEN st.line_items[i]
                                  ELSE db.line_items[i]]]

\* a validation that forgets the largest quantity of a line item
validate_order_creation_without_max(lead_days, items) ==
  IF SumOver([k \in DOMAIN items |-> items[k].quantity], DOMAIN items)
       < MIN_ORDER_QUANTITY
  THEN "OrderValidationError"
  ELSE IF lead_days < MIN_LEAD_TIME_CREATED
  THEN "OrderValidationError"
  ELSE Null

\* OrderService._validate_order_creation; lead_days is
\* delivery_date - today
validate_order_creation(lead_days, items) ==
  IF SumOver([k \in DOMAIN items |-> items[k].quantity], DOMAIN items)
       < MIN_ORDER_QUANTITY
  THEN "OrderValidationError"
  ELSE IF \E k \in DOMAIN items : items[k].quantity > MAX_LINE_ITEM_QUANTITY
  THEN "OrderValidationError"
  ELSE IF lead_days < MIN_LEAD_TIME_CREATED
  THEN "OrderValidationError"
  ELSE Null

\* the loop of OrderService.create_order over the requested items, from
\* item k on
RECURSIVE ReserveItems(_, _, _, _)
ReserveItems(st, order_id, items, k) ==
  IF k > Len(items) THEN StoreResult(Null, st)
  ELSE
    LET item == items[k] IN
    IF item.inventory_id \notin InvIds THEN StoreResult("NoResultFound", st)
    ELSE IF insufficient(st.inventory, item.inventory_id, item.quantity)
    THEN StoreResult("InsufficientInventoryError", st)
    ELSE
      LET line_item == [order_id |-> order_id,
                        inventory_id |-> item.inventory_id,
                        quantity |-> item.quantity,
                        unit_price |-> BasePrice]
          st1 == [st EXCEPT
                    !.inventory = reserve(@, item.inventory_id, item.quantity),
                    !.line_items = (st.next_line_item_id :> line_item) @@ @,
                    !.next_line_item_id = @ + 1]
      IN ReserveItems(st1, order_id, items, k + 1)

\* OrderService.create_order
create_order(st, lead_days, items) ==
  IF validate_order_creation(lead_days, items) /= Null
  THEN StoreResult(validate_order_creation(lead_days, items), st)
  ELSE
    LET order_id == Len(st.orders) + 1
        st1 == [st EXCEPT !.orders = Append(@, [status |-> "CREATED",
                                                total_amount |-> 0,
                                                history |-> <<>>])]
        r == ReserveItems(st1, order_id, items, 1)
    IN
    IF r.raised /= Null THEN StoreResult(r.raised, st)
    ELSE StoreResult(Null,
           [r.store EXCEPT
              !.orders[order_id].total_amount =
                 LineTotal(LineItemsOf(r.store, order_id)),
              !.orders[order_id].history = Append(@, "CREATED")])

\* the loop of OrderService.cancel_order over the order's line items
RECURSIVE ReleaseItems(_, _, _)
ReleaseItems(inventory_rows, items, ids) ==
  IF ids = {} THEN inventory_rows
  ELSE LET i == CHOOSE x \in ids : TRUE IN
       ReleaseItems(release(inventory_rows, items[i].inventory_id,
                            items[i].quantity),
                    items, ids \ {i})

\* cancel_order without the check of the order's status
cancel_order_unchecked(st, order_id) ==
  IF order_id \notin DOMAIN st.orders THEN StoreResult("NoResultFound", st)
  ELSE
    LET items == LineItemsOf(st, order_id) IN
    StoreResult(Null,
      [st EXCEPT !.inventory = ReleaseItems(@, items, DOMAIN items),
                 !.orders[order_id].status = "CANCELLED",
                 !.orders[order_id].history = Append(@, "CANCELLED")])

\* OrderService.cancel_order
cancel_order(st, order_id) ==
  IF order_id \notin DOMAIN st.orders THEN StoreResult("NoResultFound", st)
  ELSE IF st.orders[order_id].status \in {"READY_TO_SHIP", "SHIPPED"}
  THEN StoreResult("InvalidOrderModificationError", st)
  ELSE
    LET items == LineItemsOf(st, order_id) IN
    StoreResult(Null,
      [st EXCEPT !.inventory = ReleaseItems(@, items, DOMAIN items),
                 !.orders[order_id].status = "CANCELLED",
                 !.orders[order_id].history = Append(@, "CANCELLED")])

\* OrderService.VALID_STATES
VALID_STATES ==
  {"CREATED", "APPROVED", "IN_PRODUCTION", "READY_TO_SHIP", "SHIPPED"}

\* OrderService.STATE_TRANSITIONS
STATE_TRANSITIONS ==
  ("CREATED" :> {"APPROVED"}) @@
  ("APPROVED" :> {"IN_PRODUCTION"}) @@
  ("IN_PRODUCTION" :> {"READY_TO_SHIP"}) @@
  ("READY_TO_SHIP" :> {"SHIPPED"}) @@
  ("SHIPPED" :> {})

\* a validation that lets every valid status follow every status
validate_state_transition_any(current_status, new_status) ==
  IF new_status \notin VALID_STATES THEN "InvalidStateTransitionError"
  ELSE Null

\* OrderService._validate_state_transition: Null, or the exception raised
validate_state_transition(current_status, new_status) ==
  IF new_status \notin VALID_STATES THEN "InvalidStateTransitionError"
  ELSE LET allowed_transitions ==
             IF current_status \in DOMAIN STATE_TRANSITIONS
             THEN STATE_TRANSITIONS[current_status] ELSE {}
       IN IF new_status \notin allowed_transitions
          THEN "InvalidStateTransitionError"
          ELSE Null

\* OrderService.update_order_status
update_order_status(st, order_id, new_status) ==
  IF order_id \notin DOMAIN st.orders THEN StoreResult("NoResultFound", st)
  ELSE IF validate_state_transition(st.orders[order_id].status, new_status) /= Null
  THEN StoreResult(validate_state_transition(st.orders[order_id].status,
                                             new_status), st)
  ELSE StoreResult(Null,
         [st EXCEPT !.orders[order_id].status = new_status,
                    !.orders[order_id].history = Append(@, new_status)])

\* OrderService.modify_line_item on the store, with the check that the
\* line item is one of the order
modify_line_item(st, order_id, line_item_id, new_quantity, new_size_id, new_color_id) ==
  IF order_id \notin DOMAIN st.orders \/ line_item_id \notin DOMAIN st.line_items
  THEN StoreResult("NoResultFound", st)
  ELSE IF st.line_items[line_item_id].order_id /= order_id
  THEN StoreResult("InvalidOrderModificationError", st)
  ELSE
    LET r == SvcModifyLineItem(OrderDb(st, order_id), line_item_id,
                               new_quantity, new_size_id, new_color_id)
    IN IF r.kind = "ok" THEN StoreResult(Null, WithOrderDb(st, order_id, r.db))
       ELSE StoreResult(r.kind, st)

\* OrderService.remove_line_item on the store, with the check that the
\* line item is one of the order
remove_line_item(st, order_id, line_item_id) ==
  IF order_id \notin DOMAIN st.orders \/ line_item_id \notin DOMAIN st.line_items
  THEN StoreResult("NoResultFound", st)
  ELSE IF st.line_items[line_item_id].order_id /= order_id
  THEN StoreResult("InvalidOrderModificationError", st)
  ELSE
    LET r == SvcRemoveLineItem(OrderDb(st, order_id), line_item_id)
    IN IF r.kind = "ok" THEN StoreResult(Null, WithOrderDb(st, order_id, r.db))
       ELSE StoreResult(r.kind, st)

(* ------------------------------ OrderTools ---------------------------- *)
\* what get_enriched_order / get_order_details shows of the order
EnrichedLineItems(db) ==
  [i \in DOMAIN db.line_items |->
     [product_name |-> ProductName,
      size |-> InvSize[db.line_items[i].inventory_id],
      color |-> InvColor[db.line_items[i].inventory_id],
      quantity |-> db.line_items[i].quantity,
      unit_price |-> db.line_items[i].unit_price]]

get_order_details(db) ==
  [status |-> db.order.status,
   total_amount |-> db.order.total_amount,
   line_items |-> EnrichedLineItems(db)]

\* the loop of OrderTools that finds the target line item by
\* product/size/color (first match in list order, taken as id order);
\* {} when there is none.  The agent never passes line_item_id.
FindLineItem(db, product_name, size_name, color_name) ==
  IF TruthyStr(product_name) /\ TruthyStr(size_name) /\ TruthyStr(color_name)
  THEN LET items == EnrichedLineItems(db)
           m == {i \in DOMAIN items :
                   /\ Lower(items[i].product_name) = Lower(product_name)
                   /\ Lower(items[i].size) = Lower(size_name)
                   /\ Lower(items[i].color) = Lower(color_name)}
       IN IF m = {} THEN {} ELSE {CHOOSE i \in m : \A j \in m : i <= j}
  ELSE {}

\* get_available_sizes_for_product / get_available_colors_for_product
AvailableSizes == {InvSize[i] : i \in InvIds}
AvailableColors == {InvColor[i] : i \in InvIds}

\* result of an OrderTools call: raised is the exception that left the
\* call (Null when it returned), success/error the returned dict
ToolResult(raised, success, error, db) ==
  [raised |-> raised, success |-> success, error |-> error, db |-> db]

\* OrderTools.modify_line_item
ToolModifyLineItem(db, product_name, size_name, color_name, new_quantity, new_size_name, new_color_name) ==
  LET target == FindLineItem(db, product_name, size_name, color_name) IN
  IF target = {} THEN ToolResult("LineItemNotFoundError", FALSE, Null, db)
  ELSE
    LET li == CHOOSE i \in target : TRUE
        sizes == IF TruthyStr(new_size_name)
                 THEN {z \in AvailableSizes : Lower(z) = Lower(new_size_name)}
                 ELSE {}
        colors == IF TruthyStr(new_color_name)
                  THEN {c \in AvailableColors : Lower(c) = Lower(new_color_name)}
                  ELSE {}
    IN
    IF TruthyStr(new_size_name) /\ sizes = {}
    THEN ToolResult("InvalidSizeError", FALSE, Null, db)
    ELSE IF TruthyStr(new_color_name) /\ colors = {}
    THEN ToolResult("InvalidColorError", FALSE, Null, db)
    ELSE
      LET new_size_id == IF sizes = {} THEN Null ELSE CHOOSE z \in sizes : TRUE
          new_color_id == IF colors = {} THEN Null ELSE CHOOSE c \in colors : TRUE
          r == SvcModifyLineItem(db, li, new_quantity, new_size_id, new_color_id)
      IN
      CASE r.kind = "ok" -> ToolResult(Null, TRUE, Null, r.db)
        [] r.kind = "InsufficientInventoryError" ->
             ToolResult(Null, FALSE, "insufficient_inventory", db)
        [] r.kind = "InvalidOrderModificationError" ->
             ToolResult(Null, FALSE, "modification_not_allowed", db)
        [] OTHER -> ToolResult(r.kind, FALSE, Null, db)

\* OrderTools.remove_line_item
ToolRemoveLineItem(db, product_name, size_name, color_name) ==
  LET target == FindLineItem(db, product_name, size_name, color_name) IN
  IF target = {} THEN ToolResult("LineItemNotFoundError", FALSE, Null, db)
  ELSE
    LET r == SvcRemoveLineItem(db, CHOOSE i \in target : TRUE) IN
    CASE r.kind = "ok" -> ToolResult(Null, TRUE, Null, r.db)
      [] r.kind = "InvalidOrderModificationError" ->
           ToolResult(Null, FALSE, "modification_not_allowed", db)
      [] r.kind = "OrderValidationError" ->
           ToolResult(Null, FALSE, "validation_error", db)
      [] OTHER -> ToolResult(r.kind, FALSE, Null, db)

(* --------------------------- language model --------------------------- *)
\* A raw model output is a sequence of lines.  A line is a code fence, a
\* bare token, a JSON object (a dict: a function from its keys), a JSON
\* value that is not an object, or text that is no JSON at all.
EmptyDict == [k \in {} |-> Null]
Fence == [t |-> "fence", s |-> "fence", obj |-> EmptyDict]
Token(s) == [t |-> "text", s |-> s, obj |-> EmptyDict]
Json(obj) == [t |-> "json", s |-> "", obj |-> obj]
JsonList == [t |-> "jsonlist", s |-> "[]", obj |-> EmptyDict]
Garbage == Token("sorry")

\* dict.get(key, default)
Get(d, k, default) == IF k \in DOMAIN d THEN d[k] ELSE default

\* _strip_code_fences: when the content starts with a fence, drop the
\* first and the last line
strip_code_fences(content) ==
  IF content = <<>> \/ content[1].t /= "fence" THEN content
  ELSE IF Len(content) <= 2 THEN <<>>
  ELSE SubSeq(content, 2, Len(content) - 1)

\* json.loads: "dict" with the object, "other" for JSON that is not an
\* object, "error" (JSONDecodeError) otherwise
json_loads(content) ==
  IF Len(content) = 1 /\ content[1].t = "json"
  THEN [kind |-> "dict", obj |-> content[1].obj]
  ELSE IF Len(content) = 1 /\ content[1].t = "jsonlist"
  THEN [kind |-> "other", obj |-> EmptyDict]
  ELSE [kind |-> "error", obj |-> EmptyDict]

(* ------------------------- models/cx_order_support -------------------- *)
Intents == {"ORDER_INQUIRY", "ORDER_CHANGE", "CONFIRMATION",
            "POLICY_CONFIRMATION", "OFF_TOPIC", "UNCLEAR"}
ModificationActions == {"modify", "remove_item", "unsupported"}
Interpretations == {"CONFIRMED", "REJECTED", "CORRECTION", "UNCLEAR"}
PolicyDecisions == {"allowed", "conditional", "denied"}

\* a model_validate without _validate_action_requirements: the field
\* types only
ValidPendingModification_types_only(m) ==
  /\ m.action \in ModificationActions
  /\ m.product_name /= Null /\ m.size_name /= Null /\ m.color_name /= Null

\* PendingModification.model_validate on the normalized dict: TRUE when
\* the types fit and _validate_action_requirements passes
ValidPendingModification(m) ==
  /\ m.action \in ModificationActions
  /\ m.product_name /= Null /\ m.size_name /= Null /\ m.color_name /= Null
  /\ \/ m.action = "unsupported"
     \/ /\ m.product_name /= "" /\ m.size_name /= "" /\ m.color_name /= ""
        /\ IF m.action = "modify"
           THEN ~(IsNone(m.new_quantity) /\ m.new_size = Null /\ m.new_color = Null)
           ELSE IsNone(m.new_quantity) /\ m.new_size = Null /\ m.new_color = Null

(* ------------------------ agent: parsing helpers ---------------------- *)
\* a _parse_intent that trusts any bare token
parse_intent_trusts_tokens(raw) ==
  LET content == strip_code_fences(raw) IN
  IF Len(content) = 1 /\ content[1].t = "text" THEN content[1].s
  ELSE LET j == json_loads(content) IN
       IF j.kind = "dict" /\ Get(j.obj, "intent", Null) \in Intents
       THEN j.obj["intent"]
       ELSE "UNCLEAR"

\* _parse_intent
parse_intent(raw) ==
  LET content == strip_code_fences(raw) IN
  IF Len(content) = 1 /\ content[1].t = "text" /\ content[1].s \in Intents
  THEN content[1].s
  ELSE LET j == json_loads(content) IN
       IF j.kind = "dict" /\ Get(j.obj, "intent", Null) \in Intents
       THEN j.obj["intent"]
       ELSE "UNCLEAR"

\* outcome of a parse attempt: ok with a value, a caught error ("invalid")
\* or an exception that the caller does not catch
ParseOk(v) == [kind |-> "ok", val |-> Some(v), raised |-> Null]
ParseInvalid == [kind |-> "invalid", val |-> NoneV, raised |-> Null]
ParseRaised(e) == [kind |-> "raised", val |-> NoneV, raised |-> e]

\* _normalize_and_validate_modification
normalize_and_validate_modification(content) ==
  LET j == json_loads(content) IN
  IF j.kind = "error" THEN ParseInvalid
  ELSE IF j.kind = "other" THEN ParseRaised("AttributeError")
  ELSE
    LET parsed == j.obj
        a0 == Get(parsed, "action", "unsupported")
        action_raw == IF a0 \in {"modify_quantity", "modify_size", "modify_color"}
                      THEN "modify" ELSE a0
        sn == Get(parsed, "size_name", Null)
        cn == Get(parsed, "color_name", Null)
        normalized ==
          [action |-> action_raw,
           product_name |-> Get(parsed, "product_name", ""),
           size_name |-> IF TruthyStr(sn) THEN sn ELSE Get(parsed, "size", ""),
           color_name |-> IF TruthyStr(cn) THEN cn ELSE Get(parsed, "color", ""),
           new_quantity |-> Get(parsed, "new_quantity", NoneV),
           new_size |-> Get(parsed, "new_size", Null),
           new_color |-> Get(parsed, "new_color", Null)]
    IN IF ValidPendingModification(normalized) THEN ParseOk(normalized)
       ELSE ParseInvalid

\* _repair_json_once: the second model output, fences stripped
repair_json_once(repair_raw) == strip_code_fences(repair_raw)

\* _parse_modification: first output, then at most one repair.
\* calls counts the model invocations made
parse_modification(raw1, raw2) ==
  LET first == normalize_and_validate_modification(strip_code_fences(raw1)) IN
  IF first.kind /= "invalid" THEN [r |-> first, calls |-> 1]
  ELSE LET second == normalize_and_validate_modification(repair_json_once(raw2))
       IN [r |-> second, calls |-> 2]

\* _parse_confirmation_interpretation
parse_confirmation_interpretation(content) ==
  LET j == json_loads(content) IN
  IF j.kind = "error" THEN ParseInvalid
  ELSE IF j.kind = "other" THEN ParseRaised("AttributeError")
  ELSE
    LET parsed == j.obj
        i0 == Get(parsed, "interpretation", Null)
        interpretation == IF TruthyStr(i0) THEN i0 ELSE Get(parsed, "type", Null)
        normalized ==
          [interpretation |-> interpretation,
           corrected_quantity |-> Get(parsed, "corrected_quantity", NoneV),
           corrected_size |-> Get(parsed, "corrected_size", Null),
           corrected_color |-> Get(parsed, "corrected_color", Null)]
    IN IF interpretation \in Interpretations THEN ParseOk(normalized)
       ELSE ParseInvalid

UnclearInterpretation ==
  [interpretation |-> "UNCLEAR", corrected_quantity |-> NoneV,
   corrected_size |-> Null, corrected_color |-> Null]

\* _interpret_confirmation: first output, at most one repair, then UNCLEAR
interpret_confirmation(raw1, raw2) ==
  LET first == parse_confirmation_interpretation(strip_code_fences(raw1)) IN
  IF first.kind /= "invalid" THEN [r |-> first, calls |-> 1]
  ELSE LET second == parse_confirmation_interpretation(repair_json_once(raw2)) IN
       IF second.kind = "invalid"
       THEN [r |-> ParseOk(UnclearInterpretation), calls |-> 2]
       ELSE [r |-> second, calls |-> 2]

(* ------------------------------ PolicyTool ---------------------------- *)
\* index of the first fence line after position i, 0 when there is none
NextFence(content, i) ==
  LET js == {j \in (i + 1)..Len(content) : content[j].t = "fence"} IN
  IF js = {} THEN 0 ELSE CHOOSE j \in js : \A k \in js : j <= k

\* PolicyTool._extract_json; "raised" is the ValueError of str.index
extract_json(content) ==
  LET tagged == {i \in 1..Len(content) :
                   content[i].t = "fence" /\ content[i].s = "fencejson"}
      objs == {i \in 1..Len(content) : content[i].t = "json"}
  IN
  IF tagged /= {} THEN
    LET start == CHOOSE i \in tagged : \A k \in tagged : i <= k
        end == NextFence(content, start)
    IN IF end = 0 THEN [raised |-> "ValueError", content |-> <<>>]
       ELSE [raised |-> Null, content |-> SubSeq(content, start + 1, end - 1)]
  ELSE IF content /= <<>> /\ content[1].t = "fence" THEN
    LET nf == NextFence(content, 1)
        end_idx == IF nf = 0 THEN Len(content) ELSE nf
    IN [raised |-> Null, content |-> SubSeq(content, 2, end_idx - 1)]
  ELSE IF objs /= {} THEN
    LET i == CHOOSE i \in objs : \A k \in objs : i <= k
    IN [raised |-> Null, content |-> <<content[i]>>]
  ELSE [raised |-> Null, content |-> content]

PolicyResult(decision, escalate) ==
  [decision |-> decision, escalate_to_support |-> escalate]

\* PolicyTool.evaluate_change on the model's raw answer: the parsed
\* PolicyEvaluationResult, the fail-safe DENIED, or an escaping exception
evaluate_change(raw) ==
  LET x == extract_json(raw) IN
  IF x.raised /= Null THEN [raised |-> x.raised, result |-> PolicyResult("denied", FALSE)]
  ELSE
    LET j == json_loads(x.content) IN
    IF /\ j.kind = "dict"
       /\ Get(j.obj, "decision", Null) \in PolicyDecisions
       /\ Get(j.obj, "change_type", Null) /= Null
       /\ Get(j.obj, "order_status", Null) /= Null
    THEN [raised |-> Null,
          result |-> PolicyResult(j.obj["decision"],
                                  Get(j.obj, "escalate_to_support", FALSE))]
    ELSE [raised |-> Null, result |-> PolicyResult("denied", TRUE)]

(* --------------------------- agent: the nodes ------------------------- *)
\* The context of a turn: the AgentState the nodes pass along (state), the
\* database as the turn's db session sees it (db), the state after the
\* last node that completed (last), the exception that left a node
\* (raised) and what the turn did (calls made, results obtained).
InitialState(cp) ==
  [response |-> "",
   intent |-> "UNCLEAR",
   understanding_confirmed |-> FALSE,
   order_details |-> cp.order_details,
   pending_modification |-> cp.pending_modification,
   pending_modification_id |-> cp.pending_modification_id,
   pending_modification_status |-> cp.pending_modification_status,
   policy_evaluation |-> cp.policy_evaluation,
   policy_confirmation_status |-> cp.policy_confirmation_status]

InitialContext(cp, db) ==
  [state |-> InitialState(cp),
   db |-> db,
   last |-> InitialState(cp),
   raised |-> Null,
   nodes |-> <<>>,
   classifier_calls |-> 0,
   parse_calls |-> 0,
   extracted |-> "",
   interpret_calls |-> 0,
   interpretation |-> Null,
   policy_calls |-> 0,
   policy_args |-> NoneV,
   decision |-> Null,
   mutation_calls |-> 0,
   mutation_success |-> FALSE,
   mutated_id |-> 0]

\* a node returns st: the graph records it (checkpoint after the step)
Returns(c, node, st) ==
  [c EXCEPT !.state = st, !.last = st, !.nodes = Append(@, node)]

\* a node raises: the exception leaves graph.invoke
Raises(c, node, e) ==
  [c EXCEPT !.raised = e, !.nodes = Append(@, node)]

\* a classification that ignores a pending policy confirmation
intent_classification_always_classifies(c, raw) ==
  Returns([c EXCEPT !.classifier_calls = @ + 1], "intent_classification",
          [c.state EXCEPT !.intent = parse_intent(raw)])

\* _intent_classification
intent_classification(c, raw) ==
  IF c.state.policy_confirmation_status = "pending"
  THEN Returns(c, "intent_classification",
               [c.state EXCEPT !.intent = "POLICY_CONFIRMATION"])
  ELSE Returns([c EXCEPT !.classifier_calls = @ + 1], "intent_classification",
               [c.state EXCEPT !.intent = parse_intent(raw)])

\* _unclear_intent_response
unclear_intent_response(c) ==
  Returns(c, "unclear_intent_response",
          [c.state EXCEPT !.response = "clarify_intent"])

\* _off_topic_response
off_topic_response(c) ==
  Returns(c, "off_topic_response", [c.state EXCEPT !.response = "llm_off_topic"])

\* an order summary that drops the modification in waiting
order_summary_forgetful(c) ==
  Returns(c, "order_summary",
          [c.state EXCEPT !.order_details = Some(get_order_details(c.db)),
                          !.pending_modification = NoneV,
                          !.pending_modification_status = Null,
                          !.response = "llm_order_summary"])

\* _order_summary
order_summary(c) ==
  Returns(c, "order_summary",
          [c.state EXCEPT !.order_details = Some(get_order_details(c.db)),
                          !.response = "llm_order_summary"])

\* _fetch_order_details; new_id is the uuid4 of the PendingModification
fetch_order_details(c, raw1, raw2, new_id) ==
  LET st1 == [c.state EXCEPT !.order_details = Some(get_order_details(c.db))]
      Cleared(resp) == [st1 EXCEPT !.pending_modification = NoneV,
                                   !.pending_modification_id = 0,
                                   !.pending_modification_status = Null,
                                   !.response = resp]
      \* the rest of the node, given what _parse_modification returned
      Parsed(p) ==
        LET c1 == [c EXCEPT !.parse_calls = p.calls,
                            !.extracted = IF p.r.kind = "ok"
                                          THEN Val(p.r.val).action
                                          ELSE p.r.kind]
        IN
        IF p.r.kind = "raised" THEN Raises(c1, "fetch_order_details", p.r.raised)
        ELSE IF p.r.kind = "invalid"
        THEN Returns(c1, "fetch_order_details", Cleared("clarify_change"))
        ELSE IF Val(p.r.val).action = "unsupported"
        THEN Returns(c1, "fetch_order_details", Cleared("unsupported_referral"))
        ELSE Returns(c1, "fetch_order_details",
                     [st1 EXCEPT !.pending_modification = p.r.val,
                                 !.pending_modification_id = new_id,
                                 !.pending_modification_status = "pending",
                                 !.response = "llm_confirm_question"])
  IN Parsed(parse_modification(raw1, raw2))

\* the correction merge of _confirm_understanding
MergeCorrection(pending_mod, i) ==
  [pending_mod EXCEPT
     !.new_quantity = IF ~IsNone(i.corrected_quantity)
                      THEN i.corrected_quantity ELSE @,
     !.new_size = IF TruthyStr(i.corrected_size) THEN i.corrected_size ELSE @,
     !.new_color = IF TruthyStr(i.corrected_color) THEN i.corrected_color ELSE @]

\* a settled_response that forgets the check for EXECUTED
settled_response_without_executed(st) ==
  IF st.pending_modification_status = "cancelled" THEN "was_cancelled"
  ELSE IF IsNone(st.pending_modification)
          \/ st.pending_modification_status /= "pending"
  THEN "no_pending_change"
  ELSE ""

\* the early returns of _confirm_understanding: the fixed response when
\* there is nothing left to confirm, "" when the reply is to be interpreted
settled_response(st) ==
  IF st.pending_modification_status = "executed" THEN "already_applied"
  ELSE IF st.pending_modification_status = "cancelled" THEN "was_cancelled"
  ELSE IF IsNone(st.pending_modification)
          \/ st.pending_modification_status /= "pending"
  THEN "no_pending_change"
  ELSE ""

\* does _confirm_understanding get as far as asking the model?
ConfirmAsksModel(st) == settled_response(st) = ""

\* a REJECTED branch that forgets to mark the modification cancelled
confirm_rejected_keeps_status(st) ==
  [st EXCEPT !.understanding_confirmed = FALSE,
             !.response = "cancel_ack",
             !.pending_modification = NoneV]

\* the REJECTED branch of _confirm_understanding
confirm_rejected(st) ==
  [st EXCEPT !.understanding_confirmed = FALSE,
             !.response = "cancel_ack",
             !.pending_modification = NoneV,
             !.pending_modification_status = "cancelled"]

\* _confirm_understanding
confirm_understanding(c, raw1, raw2) ==
  LET st == c.state
      node == "confirm_understanding"
  IN
  IF settled_response(st) /= ""
  THEN Returns(c, node, [st EXCEPT !.response = settled_response(st)])
  ELSE
    LET pending_mod == Val(st.pending_modification)
        \* the rest of the node, given what _interpret_confirmation returned
        Interpreted(i) ==
          LET c1 == [c EXCEPT !.interpret_calls = i.calls] IN
          IF i.r.kind = "raised" THEN Raises(c1, node, i.r.raised)
          ELSE
            LET out == Val(i.r.val)
                c2 == [c1 EXCEPT !.interpretation = out.interpretation]
            IN
            CASE out.interpretation = "CONFIRMED" ->
                   Returns(c2, node, [st EXCEPT !.understanding_confirmed = TRUE,
                                                !.response = ""])
              [] out.interpretation = "CORRECTION" ->
                   LET corrected == MergeCorrection(pending_mod, out) IN
                   IF ValidPendingModification(corrected)
                   THEN Returns(c2, node,
                                [st EXCEPT !.pending_modification = Some(corrected),
                                           !.understanding_confirmed = TRUE,
                                           !.response = ""])
                   ELSE Raises(c2, node, "ValidationError")
              [] out.interpretation = "REJECTED" ->
                   Returns(c2, node, confirm_rejected(st))
              [] OTHER ->
                   Returns(c2, node, [st EXCEPT !.understanding_confirmed = FALSE,
                                                !.response = "clarify_confirmation"])
    IN Interpreted(interpret_confirmation(raw1, raw2))

\* a router that ignores understanding_confirmed
route_after_confirmation_always_evaluates(st) == "policy_evaluation"

\* _route_after_confirmation
route_after_confirmation(st) ==
  IF st.understanding_confirmed THEN "policy_evaluation" ELSE "end"

\* the line item of the order snapshot that a modification names (the
\* first match of the loops in _get_original_quantity/_policy_evaluation)
MatchedItem(modification, order_details) ==
  LET items == order_details.line_items
      m == {k \in DOMAIN items :
              /\ Lower(items[k].product_name) = Lower(modification.product_name)
              /\ Lower(items[k].size) = Lower(modification.size_name)
              /\ Lower(items[k].color) = Lower(modification.color_name)}
  IN IF m = {} THEN {} ELSE {CHOOSE k \in m : \A j \in m : k <= j}

\* _get_original_quantity
get_original_quantity(modification, order_details) ==
  LET m == MatchedItem(modification, order_details) IN
  IF m = {} THEN NoneV
  ELSE Some(order_details.line_items[CHOOSE k \in m : TRUE].quantity)

\* a change type that takes a tie for an increase
determine_change_type_tie_up(modification, order_details) ==
  IF modification.action = "remove_item" THEN "remove_item"
  ELSE IF ~IsNone(modification.new_quantity) THEN
    LET original_quantity == get_original_quantity(modification, order_details) IN
    IF ~IsNone(original_quantity)
       /\ Val(modification.new_quantity) >= Val(original_quantity)
    THEN "quantity_increase"
    ELSE "quantity_decrease"
  ELSE IF modification.new_size /= Null THEN "size_change"
  ELSE IF modification.new_color /= Null THEN "color_change"
  ELSE "quantity_decrease"

\* _determine_change_type
determine_change_type(modification, order_details) ==
  IF modification.action = "remove_item" THEN "remove_item"
  ELSE IF ~IsNone(modification.new_quantity) THEN
    LET original_quantity == get_original_quantity(modification, order_details) IN
    IF ~IsNone(original_quantity)
       /\ Val(modification.new_quantity) > Val(original_quantity)
    THEN "quantity_increase"
    ELSE "quantity_decrease"
  ELSE IF modification.new_size /= Null THEN "size_change"
  ELSE IF modification.new_color /= Null THEN "color_change"
  ELSE "quantity_decrease"

\* a DENIED branch that leaves the modification pending
policy_denied_keeps_pending(st) == [st EXCEPT !.response = "llm_denial"]

\* the DENIED branch of _policy_evaluation
policy_denied(st) ==
  [st EXCEPT !.response = "llm_denial",
             !.pending_modification = NoneV,
             !.pending_modification_status = "cancelled"]

\* a CONDITIONAL branch that does not open the policy confirmation
policy_conditional_without_status(st) == [st EXCEPT !.response = ""]

\* the CONDITIONAL branch of _policy_evaluation
policy_conditional(st) ==
  [st EXCEPT !.policy_confirmation_status = "pending", !.response = ""]

\* _policy_evaluation
policy_evaluation(c, raw) ==
  LET st == c.state
      node == "policy_evaluation"
  IN
  IF IsNone(st.pending_modification)
  THEN Returns(c, node, [st EXCEPT !.response = "no_pending_to_evaluate",
                                   !.policy_evaluation = NoneV])
  ELSE
    LET pending_mod == Val(st.pending_modification)
        order_details == Val(st.order_details)
        m == MatchedItem(pending_mod, order_details)
        affected_amount ==
          IF m = {} THEN 0
          ELSE LET item == order_details.line_items[CHOOSE k \in m : TRUE]
               IN item.quantity * item.unit_price
        args == [order_status |-> order_details.status,
                 change_type |-> determine_change_type(pending_mod, order_details),
                 affected_amount |-> affected_amount,
                 order_total |-> order_details.total_amount]
        \* the rest of the node, given the call that was made and what
        \* evaluate_change returned
        Evaluated(c1, e) ==
          IF e.raised /= Null THEN Raises(c1, node, e.raised)
          ELSE
            LET c2 == [c1 EXCEPT !.decision = e.result.decision]
                st1 == [st EXCEPT !.policy_evaluation = Some(e.result)]
            IN
            CASE e.result.decision = "denied" ->
                   Returns(c2, node, policy_denied(st1))
              [] e.result.decision = "conditional" ->
                   Returns(c2, node, policy_conditional(st1))
              [] OTHER -> Returns(c2, node, st1)
    IN Evaluated([c EXCEPT !.policy_calls = @ + 1, !.policy_args = Some(args)],
                 evaluate_change(raw))

\* _route_after_policy_evaluation
route_after_policy_evaluation(st) ==
  IF IsNone(st.policy_evaluation) THEN "end"
  ELSE IF Val(st.policy_evaluation).decision = "allowed" THEN "execute"
  ELSE IF Val(st.policy_evaluation).decision = "conditional" THEN "conditional"
  ELSE "denied"

\* _policy_condition_response
policy_condition_response(c) ==
  IF IsNone(c.state.policy_evaluation)
  THEN Returns(c, "policy_condition_response",
               [c.state EXCEPT !.response = "something_went_wrong"])
  ELSE Returns(c, "policy_condition_response",
               [c.state EXCEPT !.response = "llm_policy_conditions"])

\* does _policy_condition_confirmation get as far as asking the model?
PolicyConfirmAsksModel(st) == ~IsNone(st.pending_modification)

\* a no-pending branch that also marks a modification cancelled
no_pending_policy_cancels(st) ==
  [st EXCEPT !.response = "no_pending_policy",
             !.policy_confirmation_status = Null,
             !.pending_modification_status = "cancelled"]

\* the branch of _policy_condition_confirmation taken when the state holds
\* no pending modification
no_pending_policy(st) ==
  [st EXCEPT !.response = "no_pending_policy",
             !.policy_confirmation_status = Null]

\* _policy_condition_confirmation
policy_condition_confirmation(c, raw1, raw2) ==
  LET st == c.state
      node == "policy_condition_confirmation"
  IN
  IF IsNone(st.pending_modification)
  THEN Returns(c, node, no_pending_policy(st))
  ELSE
    LET \* the rest of the node, given what _interpret_confirmation returned
        Interpreted(i) ==
          LET c1 == [c EXCEPT !.interpret_calls = i.calls] IN
          IF i.r.kind = "raised" THEN Raises(c1, node, i.r.raised)
          ELSE
            LET out == Val(i.r.val)
                c2 == [c1 EXCEPT !.interpretation = out.interpretation]
            IN
            CASE out.interpretation = "CONFIRMED" ->
                   Returns(c2, node,
                           [st EXCEPT !.policy_confirmation_status = "accepted",
                                      !.response = ""])
              [] out.interpretation = "REJECTED" ->
                   Returns(c2, node,
                           [st EXCEPT !.policy_confirmation_status = "rejected",
                                      !.response = "cancel_ack",
                                      !.pending_modification = NoneV,
                                      !.pending_modification_status = "cancelled"])
              [] OTHER ->
                   Returns(c2, node, [st EXCEPT !.response = "need_yes_or_no"])
    IN Interpreted(interpret_confirmation(raw1, raw2))

\* _route_after_policy_condition_confirmation
route_after_policy_condition_confirmation(st) ==
  IF st.policy_confirmation_status = "accepted" THEN "execute" ELSE "cancelled"

\* _execute_modification: the response text, the exception that escapes
\* it, the db it leaves, and whether an OrderTools mutation was invoked
ExecResult(response, raised, db, invoked, success) ==
  [response |-> response, raised |-> raised, db |-> db,
   invoked |-> invoked, success |-> success]

execute_modification(db, modification) ==
  LET Handle(result, done) ==
        CASE result.raised = "LineItemNotFoundError" ->
               ExecResult("item_not_found", Null, db, TRUE, FALSE)
          [] result.raised = "InvalidSizeError" ->
               ExecResult("invalid_size", Null, db, TRUE, FALSE)
          [] result.raised = "InvalidColorError" ->
               ExecResult("invalid_color", Null, db, TRUE, FALSE)
          [] result.raised /= Null /\ result.raised \notin
               {"LineItemNotFoundError", "InvalidSizeError", "InvalidColorError"} ->
               ExecResult("", result.raised, db, TRUE, FALSE)
          [] OTHER ->
               IF result.success
               THEN ExecResult(done, Null, result.db, TRUE, TRUE)
               ELSE ExecResult("could_not_complete", Null, result.db, TRUE, FALSE)
  IN
  IF modification.action = "remove_item"
  THEN Handle(ToolRemoveLineItem(db, modification.product_name,
                                 modification.size_name,
                                 modification.color_name),
              "done_removed")
  ELSE IF modification.action = "modify"
  THEN Handle(ToolModifyLineItem(db, modification.product_name,
                                 modification.size_name,
                                 modification.color_name,
                                 modification.new_quantity,
                                 modification.new_size,
                                 modification.new_color),
              "done_updated")
  ELSE ExecResult("unsupported_referral", Null, db, FALSE, FALSE)

\* an execution that clears the modification and leaves its status
execute_modification_node_keeps_status(c) ==
  LET st == c.state
      node == "execute_modification"
  IN
  IF IsNone(st.pending_modification)
  THEN Returns(c, node, [st EXCEPT !.response = "no_pending_to_execute"])
  ELSE
    LET Executed(x) ==
          LET c1 == [c EXCEPT !.mutation_calls = IF x.invoked THEN @ + 1 ELSE @,
                              !.mutated_id = IF x.invoked
                                             THEN st.pending_modification_id
                                             ELSE @,
                              !.mutation_success = x.success,
                              !.db = x.db]
          IN
          IF x.raised /= Null THEN Raises(c1, node, x.raised)
          ELSE Returns(c1, node,
                       [st EXCEPT !.response = x.response,
                                  !.pending_modification = NoneV])
    IN Executed(execute_modification(c.db, Val(st.pending_modification)))

\* _execute_modification_node
execute_modification_node(c) ==
  LET st == c.state
      node == "execute_modification"
  IN
  IF IsNone(st.pending_modification)
  THEN Returns(c, node, [st EXCEPT !.response = "no_pending_to_execute"])
  ELSE
    LET \* the rest of the node, given what _execute_modification did
        Executed(x) ==
          LET c1 == [c EXCEPT !.mutation_calls = IF x.invoked THEN @ + 1 ELSE @,
                              !.mutated_id = IF x.invoked
                                             THEN st.pending_modification_id
                                             ELSE @,
                              !.mutation_success = x.success,
                              !.db = x.db]
          IN
          IF x.raised /= Null THEN Raises(c1, node, x.raised)
          ELSE Returns(c1, node,
                       [st EXCEPT !.response = x.response,
                                  !.pending_modification = NoneV,
                                  !.pending_modification_status = "executed"])
    IN Executed(execute_modification(c.db, Val(st.pending_modification)))

(* ----------------------- agent: the graph (edges) --------------------- *)
\* the part of the graph behind confirm_understanding
AfterConfirmation(c, policy_raw) ==
  IF c.raised /= Null \/ route_after_confirmation(c.state) = "end" THEN c
  ELSE
    LET \* the edges behind policy_evaluation
        Evaluated(c1) ==
          IF c1.raised /= Null THEN c1
          ELSE
            CASE route_after_policy_evaluation(c1.state) = "execute" ->
                   execute_modification_node(c1)
              [] route_after_policy_evaluation(c1.state) = "conditional" ->
                   policy_condition_response(c1)
              [] route_after_policy_evaluation(c1.state) = "denied" -> c1
              [] OTHER -> Raises(c1, "route_after_policy_evaluation", "KeyError")
    IN Evaluated(policy_evaluation(c, policy_raw))

\* the part of the graph behind policy_condition_confirmation
AfterPolicyConfirmation(c) ==
  IF c.raised /= Null THEN c
  ELSE IF route_after_policy_condition_confirmation(c.state) = "execute"
  THEN execute_modification_node(c)
  ELSE c

(* ------------------------- raw model outputs -------------------------- *)
FenceJson == [t |-> "fence", s |-> "fencejson", obj |-> EmptyDict]

\* answers of the intent classifier
IntentOutputs ==
  {<<Token(i)>> : i \in Intents} \cup
  {<<Fence, Json([intent |-> "OFF_TOPIC"]), Fence>>,
   <<Token("order_inquiry")>>}

\* answers of the modification extractor (and of its repair call)
ParseOutputs ==
  {<<Json([action |-> "modify", product_name |-> "Tee", size_name |-> "Small",
           color_name |-> "Navy", new_quantity |-> Some(15)])>>,
   <<Fence,
     Json([action |-> "modify_quantity", product_name |-> "tee", size |-> "small",
           color |-> "navy", new_quantity |-> Some(5)]),
     Fence>>,
   <<Json([action |-> "modify", product_name |-> "Tee", size_name |-> "Small",
           color_name |-> "Navy", new_size |-> "Medium", new_color |-> "Red"])>>,
   <<Json([action |-> "modify", product_name |-> "Tee", size_name |-> "Small",
           color_name |-> "Navy", new_color |-> "Pink"])>>,
   <<Json([action |-> "remove_item", product_name |-> "Tee",
           size_name |-> "Small", color_name |-> "Red"])>>,
   <<Json([action |-> "modify", product_name |-> "Tee", size_name |-> "Large",
           color_name |-> "Navy", new_size |-> "XL"])>>,
   <<Json([action |-> "unsupported", reason |-> "address change"])>>,
   <<Json([action |-> "modify", product_name |-> "Tee", size_name |-> "Small",
           color_name |-> "Navy"])>>,
   <<JsonList>>}

\* answers of the confirmation interpreter (and of its repair call)
InterpOutputs ==
  {<<Json([interpretation |-> "CONFIRMED"])>>,
   <<Json([interpretation |-> "REJECTED"])>>,
   <<Json([interpretation |-> "UNCLEAR"])>>,
   <<Json([type |-> "CORRECTION", corrected_quantity |-> Some(5)])>>,
   <<Garbage>>,
   <<JsonList>>}

\* answers of the policy evaluator
PolicyJson(d) ==
  Json([decision |-> d, change_type |-> "x", order_status |-> "X"])

PolicyOutputs ==
  {<<PolicyJson("allowed")>>,
   <<FenceJson, PolicyJson("conditional"), Fence, Garbage>>,
   <<PolicyJson("denied")>>,
   <<Garbage>>,
   <<FenceJson, PolicyJson("allowed")>>}

(* ------------------------------- state -------------------------------- *)
VARIABLES
  inventory,    \* inventory rows: available_qty, reserved_qty
  line_items,   \* the order's line items: inventory_id, quantity, unit_price
  order,        \* the order: status, total_amount
  checkpoint,   \* the session's checkpoint (channel values carried over)
  turn,         \* what the last turn did (observation)
  invoked,      \* OrderTools mutations invoked for the checkpoint's
                \* pending_modification_id
  next_id,      \* the next fresh pending_modification_id
  probe,        \* a function applied to one input, or the last call on
                \* the store: the input and what came out
  store,        \* the order store as OrderService works on it: the
                \* committed rows
  sessions,     \* the db sessions (one per request) at work on the store
  turns,        \* the invocations of process_message in flight for the
                \* session
  conversations \* the conversations table and the threads the agent has
                \* run a message on

vars == <<inventory, line_items, order, checkpoint, turn, invoked, next_id,
          probe, store, sessions, turns, conversations>>

\* no function under study
NoProbe == [op |-> "none", done |-> FALSE, in |-> <<>>, out |-> <<>>]

\* invocation counts saturate here
MaxInvoked == 2

Min(a, b) == IF a <= b THEN a ELSE b

\* no checkpoint yet: process_message starts from None everywhere
EmptyCheckpoint ==
  [order_details |-> NoneV,
   pending_modification |-> NoneV,
   pending_modification_id |-> 0,
   pending_modification_status |-> Null,
   policy_evaluation |-> NoneV,
   policy_confirmation_status |-> Null]

\* the channel values process_message carries over into the next turn
Persist(st) ==
  [order_details |-> st.order_details,
   pending_modification |-> st.pending_modification,
   pending_modification_id |-> st.pending_modification_id,
   pending_modification_status |-> st.pending_modification_status,
   policy_evaluation |-> st.policy_evaluation,
   policy_confirmation_status |-> st.policy_confirmation_status]

Observe(c, start) ==
  [ran |-> Len(c.nodes) > 0,
   route |-> IF Len(c.nodes) >= 2 THEN c.nodes[2] ELSE "",
   unchanged |-> c.raised = Null /\ Persist(c.state) = start,
   start_status |-> start.pending_modification_status,
   start_policy_status |-> start.policy_confirmation_status,
   start_pending |-> ~IsNone(start.pending_modification),
   intent |-> c.state.intent,
   raised |-> c.raised,
   response |-> IF c.raised = Null THEN c.state.response ELSE "",
   classifier_calls |-> c.classifier_calls,
   extracted |-> c.extracted,
   interpret_calls |-> c.interpret_calls,
   interpretation |-> c.interpretation,
   policy_calls |-> c.policy_calls,
   policy_status |-> IF IsNone(c.policy_args) THEN Null
                     ELSE Val(c.policy_args).order_status,
   decision |-> c.decision,
   mutation_calls |-> c.mutation_calls,
   mutation_success |-> c.mutation_success,
   mutated_id |-> c.mutated_id]

DbNow == [inventory |-> inventory, line_items |-> line_items, order |-> order]

\* no conversation yet: the table (user_id, session_id) -> number of
\* messages, the thread_ids the agent has run a message on, the session
\* ids made so far and the requests served
NoConversations == [table |-> <<>>, threads |-> {}, created |-> 0, requests |-> 0]

DialogueInit ==
  /\ conversations = NoConversations
  /\ inventory = InitInventory
  /\ line_items = InitLineItems
  /\ order = [status |-> "CREATED", total_amount |-> LineTotal(InitLineItems)]
  /\ checkpoint = EmptyCheckpoint
  /\ turn = Observe(InitialContext(EmptyCheckpoint,
                                   [inventory |-> InitInventory,
                                    line_items |-> InitLineItems,
                                    order |-> [status |-> "CREATED",
                                               total_amount |-> LineTotal(InitLineItems)]]),
                    EmptyCheckpoint)
  /\ invoked = 0
  /\ next_id = 1

SessionInit ==
  /\ DialogueInit
  /\ store = EmptyStore
  /\ sessions = <<>>
  /\ turns = <<>>

Init == SessionInit /\ probe = NoProbe

(* ------------------------------ a turn -------------------------------- *)
\* the end of process_message.  A turn that returns leaves the graph's
\* final state in the checkpoint and its db session is committed.  When an
\* exception leaves graph.invoke the db session is rolled back
\* (get_db_session) and the checkpoint is the one of the last step the
\* graph completed or the one the turn started from.
Committed(c, start) ==
  /\ IF c.raised = Null
     THEN /\ checkpoint' = Persist(c.state)
          /\ inventory' = c.db.inventory
          /\ line_items' = c.db.line_items
          /\ order' = c.db.order
     ELSE /\ checkpoint' \in {checkpoint, Persist(c.last)}
          /\ UNCHANGED <<inventory, line_items, order>>
  /\ turn' = Observe(c, start)
  /\ invoked' = IF checkpoint'.pending_modification_id
                     /= checkpoint.pending_modification_id
                THEN 0
                ELSE Min(invoked + c.mutation_calls, MaxInvoked)
  /\ next_id' = IF c.last.pending_modification_id = next_id
                THEN next_id + 1 ELSE next_id

\* the end of a turn that started from the checkpoint as it is now
Commit(c) ==
  /\ Committed(c, checkpoint)
  /\ UNCHANGED <<probe, store, sessions, turns, conversations>>

\* process_message up to the first node, from the checkpoint it has read:
\* the entry point of the graph
ClassifiedFrom(start, raw) ==
  intent_classification(InitialContext(start, DbNow), raw)

\* process_message up to the first node: the entry point of the graph
Classified(raw) == ClassifiedFrom(checkpoint, raw)

\* the second answer matters only when the first one needs a repair
RepairOutputs(needed, outputs) == IF needed THEN outputs ELSE {<<>>}

NeedsRepairModification(raw1) ==
  normalize_and_validate_modification(strip_code_fences(raw1)).kind = "invalid"

NeedsRepairInterpretation(raw1) ==
  parse_confirmation_interpretation(strip_code_fences(raw1)).kind = "invalid"

\* process_message routed to order_summary
OrderInquiryTurn ==
  \E raw \in IntentOutputs :
    LET c == Classified(raw) IN
    /\ c.state.intent = "ORDER_INQUIRY"
    /\ Commit(order_summary(c))

\* process_message routed to off_topic_response
OffTopicTurn ==
  \E raw \in IntentOutputs :
    LET c == Classified(raw) IN
    /\ c.state.intent = "OFF_TOPIC"
    /\ Commit(off_topic_response(c))

\* process_message routed to unclear_intent_response
UnclearTurn ==
  \E raw \in IntentOutputs :
    LET c == Classified(raw) IN
    /\ c.state.intent = "UNCLEAR"
    /\ Commit(unclear_intent_response(c))

\* process_message routed to fetch_order_details
OrderChangeTurn ==
  /\ next_id <= MaxMods
  /\ \E raw \in IntentOutputs :
       LET c == Classified(raw) IN
       /\ c.state.intent = "ORDER_CHANGE"
       /\ \E raw1 \in ParseOutputs :
            \E raw2 \in RepairOutputs(NeedsRepairModification(raw1), ParseOutputs) :
              Commit(fetch_order_details(c, raw1, raw2, next_id))

\* process_message routed to confirm_understanding, from the checkpoint
\* it has read
ConfirmationFrom(start) ==
  \E raw \in IntentOutputs :
    LET c == ClassifiedFrom(start, raw) IN
    /\ c.state.intent = "CONFIRMATION"
    /\ \E raw1 \in RepairOutputs(ConfirmAsksModel(c.state), InterpOutputs) :
         \E raw2 \in RepairOutputs(ConfirmAsksModel(c.state)
                                     /\ NeedsRepairInterpretation(raw1),
                                   InterpOutputs) :
           \E c1 \in {confirm_understanding(c, raw1, raw2)} :
           \E praw \in RepairOutputs(c1.raised = Null
                                       /\ route_after_confirmation(c1.state)
                                            = "policy_evaluation",
                                     PolicyOutputs) :
             Committed(AfterConfirmation(c1, praw), start)

\* process_message routed to confirm_understanding
ConfirmationTurn ==
  /\ ConfirmationFrom(checkpoint)
  /\ UNCHANGED <<probe, store, sessions, turns, conversations>>

\* process_message routed to policy_condition_confirmation
PolicyConfirmationTurn ==
  \E raw \in IntentOutputs :
    LET c == Classified(raw) IN
    /\ c.state.intent = "POLICY_CONFIRMATION"
    /\ \E raw1 \in RepairOutputs(PolicyConfirmAsksModel(c.state), InterpOutputs) :
         \E raw2 \in RepairOutputs(PolicyConfirmAsksModel(c.state)
                                     /\ NeedsRepairInterpretation(raw1),
                                   InterpOutputs) :
           Commit(AfterPolicyConfirmation(
                    policy_condition_confirmation(c, raw1, raw2)))

Next ==
  \/ OrderInquiryTurn
  \/ OffTopicTurn
  \/ UnclearTurn
  \/ OrderChangeTurn
  \/ ConfirmationTurn
  \/ PolicyConfirmationTurn

Spec == Init /\ [][Next]_vars

(* ------------------- turns of one session side by side ---------------- *)
\* chat_completions hands every request to process_message as it comes:
\* an invocation reads the session's checkpoint, runs the graph and writes
\* the checkpoint; nothing keeps a second invocation for the same
\* session_id from reading in between.
TurnIds == {1, 2}

IdleTurn == [pc |-> "idle", start |-> EmptyCheckpoint]

TurnsInit ==
  /\ DialogueInit /\ probe = NoProbe
  /\ store = EmptyStore /\ sessions = <<>>
  /\ turns = [t \in TurnIds |-> IdleTurn]

\* self.checkpointer.get(config): the invocation reads the checkpoint
ReadCheckpoint(t) ==
  /\ turns[t].pc = "idle"
  /\ turns' = [turns EXCEPT ![t] = [pc |-> "read", start |-> checkpoint]]
  /\ UNCHANGED <<inventory, line_items, order, checkpoint, turn, invoked,
                 next_id, probe, store, sessions, conversations>>

\* self.graph.invoke(initial_state, config) of a confirming reply: the
\* graph runs from the checkpoint read and writes its state
RunConfirmation(t) ==
  /\ turns[t].pc = "read"
  /\ ConfirmationFrom(turns[t].start)
  /\ turns' = [turns EXCEPT ![t].pc = "done"]
  /\ UNCHANGED <<probe, store, sessions, conversations>>

TurnsNext ==
  \/ OrderChangeTurn
  \/ \E t \in TurnIds : ReadCheckpoint(t)
  \/ \E t \in TurnIds : RunConfirmation(t)

TurnsSpec == TurnsInit /\ [][TurnsNext]_vars

(* ------------------- the parsing functions on their own --------------- *)
\* raw outputs are tried up to this many lines
MaxLines == 3

\* every raw output of 1..MaxLines lines over the given lines
RawOutputs(lines) ==
  UNION {[1..n -> lines] : n \in 1..MaxLines}

\* lines an intent classifier may answer with
IntentLines ==
  {Token(i) : i \in Intents} \cup
  {Token("order_change"), Garbage, Fence, FenceJson, JsonList,
   Json([intent |-> "CONFIRMATION"]),
   Json([intent |-> "maybe"]),
   Json([answer |-> "CONFIRMATION"])}

\* lines the modification extractor may answer with, and lines of the
\* answer to its repair call
ModLines ==
  {Fence, JsonList, Garbage,
   Json([action |-> "modify", product_name |-> "Tee", size_name |-> "Small",
         color_name |-> "Navy", new_quantity |-> Some(15)]),
   Json([action |-> "modify", product_name |-> "Tee", size_name |-> "Small",
         color_name |-> "Navy"])}

RepairModLines ==
  {Fence, JsonList,
   Json([action |-> "remove_item", product_name |-> "Tee",
         size_name |-> "Small", color_name |-> "Red"])}

\* lines the confirmation interpreter may answer with, and lines of the
\* answer to its repair call
InterpLines ==
  {Fence, JsonList, Garbage,
   Json([interpretation |-> "CONFIRMED"]),
   Json([reasoning |-> "yes"])}

RepairInterpLines ==
  {Fence, JsonList, Json([interpretation |-> "REJECTED"])}

\* lines the policy evaluator may answer with
PolicyLines ==
  {Fence, FenceJson, Garbage, JsonList,
   PolicyJson("allowed"), PolicyJson("conditional"),
   Json([decision |-> "maybe", change_type |-> "x", order_status |-> "X"]),
   Json([decision |-> "allowed"])}

\* pending modifications a confirmation may meet
PendingSamples ==
  {[action |-> "modify", product_name |-> "Tee", size_name |-> "Small",
    color_name |-> "Navy", new_quantity |-> Some(15), new_size |-> Null,
    new_color |-> Null],
   [action |-> "modify", product_name |-> "Tee", size_name |-> "Small",
    color_name |-> "Navy", new_quantity |-> NoneV, new_size |-> "Medium",
    new_color |-> "Navy"],
   [action |-> "remove_item", product_name |-> "Tee", size_name |-> "Small",
    color_name |-> "Red", new_quantity |-> NoneV, new_size |-> Null,
    new_color |-> Null]}

\* answers of the confirmation interpreter to a reply that corrects the
\* pending modification (null, empty and proper corrections), or confirms
ReplyOutputs ==
  {<<Json([interpretation |-> "CORRECTION", corrected_quantity |-> q,
           corrected_size |-> sz, corrected_color |-> col])>> :
     q \in {NoneV, Some(5)}, sz \in {Null, "", "Medium"}, col \in {Null, "Red"}}
  \cup {<<Json([interpretation |-> "CONFIRMED"])>>}

\* the turn context in which _confirm_understanding meets pending_mod
ConfirmContext(pending_mod) ==
  LET db == [inventory |-> InitInventory, line_items |-> InitLineItems,
             order |-> [status |-> "CREATED",
                        total_amount |-> LineTotal(InitLineItems)]]
  IN InitialContext([EmptyCheckpoint EXCEPT
                       !.order_details = Some(get_order_details(db)),
                       !.pending_modification = Some(pending_mod),
                       !.pending_modification_id = 1,
                       !.pending_modification_status = "pending"],
                    db)

\* what _confirm_understanding and the edge behind it leave
ConfirmOutcome(c) ==
  [raised |-> c.raised,
   interpretation |-> c.interpretation,
   pending_modification |-> c.state.pending_modification,
   pending_modification_status |-> c.state.pending_modification_status,
   route |-> IF c.raised = Null THEN route_after_confirmation(c.state) ELSE ""]

\* pending modifications whose change type is asked for: the line item
\* of 10 Small/Navy named in another case, or a line item the order has
\* not; fewer, as many and more pieces; a new size, a new color
ChangeSamples ==
  {m \in [action : {"modify", "remove_item"}, product_name : {"Tee"},
          size_name : {"Small"}, color_name : {"navy", "Pink"},
          new_quantity : {NoneV, Some(5), Some(10), Some(15)},
          new_size : {Null, "Medium"}, new_color : {Null, "Red"}] :
     IF m.action = "remove_item"
     THEN IsNone(m.new_quantity) /\ m.new_size = Null /\ m.new_color = Null
     ELSE ~IsNone(m.new_quantity) \/ m.new_size /= Null \/ m.new_color /= Null}

\* the order snapshots the change type is asked for: the order as it
\* stands, and one without line items
SnapshotSamples ==
  LET od == get_order_details([inventory |-> InitInventory,
                               line_items |-> InitLineItems,
                               order |-> [status |-> "CREATED",
                                          total_amount |-> LineTotal(InitLineItems)]])
  IN {od, [od EXCEPT !.line_items = <<>>]}

\* an input of a function, not yet applied
ProbeInput(op, in) == [op |-> op, done |-> FALSE, in |-> in, out |-> <<>>]

\* the inputs tried
PureInputs(p) ==
  \/ \E raw \in RawOutputs(IntentLines) : p = ProbeInput("parse_intent", raw)
  \/ \E raw1 \in RawOutputs(ModLines) :
       \E raw2 \in RepairOutputs(NeedsRepairModification(raw1),
                                RawOutputs(RepairModLines)) :
         p = ProbeInput("parse_modification", <<raw1, raw2>>)
  \/ \E raw1 \in RawOutputs(InterpLines) :
       \E raw2 \in RepairOutputs(NeedsRepairInterpretation(raw1),
                                RawOutputs(RepairInterpLines)) :
         p = ProbeInput("interpret_confirmation", <<raw1, raw2>>)
  \/ \E raw \in RawOutputs(PolicyLines) : p = ProbeInput("evaluate_change", raw)
  \/ \E pending_mod \in PendingSamples, raw \in ReplyOutputs :
       p = ProbeInput("confirm_understanding", <<pending_mod, raw>>)
  \/ \E modification \in ChangeSamples, order_details \in SnapshotSamples :
       p = ProbeInput("determine_change_type", <<modification, order_details>>)

PureInit == SessionInit /\ PureInputs(probe)

\* the function named by op is applied to the input
Apply(op, out) ==
  /\ probe.op = op /\ ~probe.done
  /\ probe' = [probe EXCEPT !.done = TRUE, !.out = out]
  /\ UNCHANGED <<inventory, line_items, order, checkpoint, turn, invoked, next_id, store, sessions, turns, conversations>>

\* _parse_intent on a raw classifier output
ApplyParseIntent == Apply("parse_intent", parse_intent(probe.in))

\* _parse_modification on the extractor's answer and the repair answer
ApplyParseModification ==
  Apply("parse_modification", parse_modification(probe.in[1], probe.in[2]))

\* _interpret_confirmation on the interpreter's answer and the repair answer
ApplyInterpretConfirmation ==
  Apply("interpret_confirmation", interpret_confirmation(probe.in[1], probe.in[2]))

\* PolicyTool.evaluate_change on the policy evaluator's answer
ApplyEvaluateChange == Apply("evaluate_change", evaluate_change(probe.in))

\* _confirm_understanding on a pending modification and the
\* interpreter's answer
ApplyConfirmUnderstanding ==
  Apply("confirm_understanding",
        ConfirmOutcome(confirm_understanding(ConfirmContext(probe.in[1]),
                                             probe.in[2], <<>>)))

\* _determine_change_type on a pending modification and an order snapshot
ApplyDetermineChangeType ==
  Apply("determine_change_type",
        determine_change_type(probe.in[1], probe.in[2]))

PureNext ==
  \/ ApplyConfirmUnderstanding
  \/ ApplyDetermineChangeType
  \/ ApplyParseIntent
  \/ ApplyParseModification
  \/ ApplyInterpretConfirmation
  \/ ApplyEvaluateChange

PureSpec == PureInit /\ [][PureNext]_vars

(* ------------------- calls on the order store ------------------------- *)
\* number of calls made on the store
MaxCalls == 4

\* line items a create_order request may name: a single slot, two slots,
\* a total below the minimum, more than the slot holds, more than a line
\* item may hold
CreateRequests ==
  {<<[inventory_id |-> 1, quantity |-> 10]>>,
   <<[inventory_id |-> 2, quantity |-> MAX_LINE_ITEM_QUANTITY + 1]>>,
   <<[inventory_id |-> 1, quantity |-> 4], [inventory_id |-> 3, quantity |-> 6]>>,
   <<[inventory_id |-> 2, quantity |-> 12]>>,
   <<[inventory_id |-> 1, quantity |-> 5]>>,
   <<[inventory_id |-> 3, quantity |-> 10]>>}

\* delivery_date - today of a request
LeadDays == {MIN_LEAD_TIME_CREATED, MIN_LEAD_TIME_CREATED - 1}

NewQuantities == {NoneV, Some(-1), Some(0), Some(4), Some(12)}
NewSizes == {Null, "Medium"}
NewColors == {Null, "Red"}

\* one call on the store: its result is committed or rolled back, and the
\* call is recorded
CalledWithin(max_calls, op, in, r) ==
  /\ store.calls < max_calls
  /\ store' = [r.store EXCEPT !.calls = @ + 1]
  /\ probe' = [op |-> op, done |-> TRUE, in |-> in, out |-> r.raised]
  /\ UNCHANGED <<inventory, line_items, order, checkpoint, turn, invoked, next_id, sessions, turns, conversations>>

Called(op, in, r) == CalledWithin(MaxCalls, op, in, r)

CreateOrder ==
  \E lead_days \in LeadDays, items \in CreateRequests :
    Called("create_order", <<lead_days, items>>,
           create_order(store, lead_days, items))

ModifyLineItem ==
  \E order_id \in DOMAIN store.orders, line_item_id \in DOMAIN store.line_items :
    \E new_quantity \in NewQuantities, new_size_id \in NewSizes,
       new_color_id \in NewColors :
      Called("modify_line_item",
             <<order_id, line_item_id, new_quantity, new_size_id, new_color_id>>,
             modify_line_item(store, order_id, line_item_id, new_quantity,
                              new_size_id, new_color_id))

RemoveLineItem ==
  \E order_id \in DOMAIN store.orders, line_item_id \in DOMAIN store.line_items :
    Called("remove_line_item", <<order_id, line_item_id>>,
           remove_line_item(store, order_id, line_item_id))

CancelOrder ==
  \E order_id \in DOMAIN store.orders :
    Called("cancel_order", <<order_id>>, cancel_order(store, order_id))

StoreNext ==
  \/ CreateOrder
  \/ ModifyLineItem
  \/ RemoveLineItem
  \/ CancelOrder

StoreSpec == Init /\ [][StoreNext]_vars

(* ------------------- the status of the orders ------------------------- *)
\* number of update_order_status and cancel_order calls made
MaxStatusCalls == 6

\* the orders the calls meet: 4 Small/Navy with 6 Small/Red, and 12 of
\* the second row
StatusStore ==
  create_order(
    create_order(EmptyStore, MIN_LEAD_TIME_CREATED,
                 <<[inventory_id |-> 1, quantity |-> 4],
                   [inventory_id |-> 3, quantity |-> 6]>>).store,
    MIN_LEAD_TIME_CREATED, <<[inventory_id |-> 2, quantity |-> 12]>>).store

\* the new_status of a request: the valid states and two more
NewStatuses == VALID_STATES \cup {"CANCELLED", "RETURNED"}

StatusInit ==
  /\ DialogueInit /\ probe = NoProbe
  /\ sessions = <<>> /\ turns = <<>>
  /\ store = StatusStore

UpdateOrderStatus ==
  \E order_id \in DOMAIN store.orders, new_status \in NewStatuses :
    CalledWithin(MaxStatusCalls, "update_order_status", <<order_id, new_status>>,
                 update_order_status(store, order_id, new_status))

CancelOrderOfStatus ==
  \E order_id \in DOMAIN store.orders :
    CalledWithin(MaxStatusCalls, "cancel_order", <<order_id>>,
                 cancel_order(store, order_id))

StatusNext ==
  \/ UpdateOrderStatus
  \/ CancelOrderOfStatus

StatusSpec == StatusInit /\ [][StatusNext]_vars

(* ------------------- the order moves on between the turns ------------- *)
\* number of steps the order's status is followed from CREATED
MaxAdvances == 1

\* the statuses the order is followed through
FollowedStates ==
  {<<"CREATED", "APPROVED", "IN_PRODUCTION", "READY_TO_SHIP", "SHIPPED">>[k] :
     k \in 1..Min(MaxAdvances + 1, 5)}

\* PATCH /orders/{order_id}/status between two turns of the session:
\* update_order_status on the order the session is about
AdvanceOrderStatus ==
  /\ \E new_status \in VALID_STATES \cap FollowedStates :
       /\ validate_state_transition(order.status, new_status) = Null
       /\ order' = [order EXCEPT !.status = new_status]
  /\ UNCHANGED <<inventory, line_items, checkpoint, turn, invoked, next_id,
                 probe, store, sessions, turns, conversations>>

MovingNext ==
  \/ Next
  \/ AdvanceOrderStatus

MovingSpec == Init /\ [][MovingNext]_vars

(* ------------------- chat requests and their sessions ----------------- *)
\* number of chat requests served
MaxChats == 4

\* auth.user_id of a request
UserIds == {"u1", "u2"}

\* f"session-{uuid.uuid4().hex}": the ids come out fresh, one after the
\* other
NewSessionIds == <<"session-1", "session-2", "session-3", "session-4", "session-5">>

\* request.session_id: none, empty, an id of the client's own making, or
\* an id a response has carried
RequestSessionIds(cv) ==
  {Null, "", "order-chat"} \cup {NewSessionIds[n] : n \in 1..cv.created}

\* ConversationRepository.get_by_session_id: the item or None
get_conversation(cv, user_id, session_id) ==
  IF <<user_id, session_id>> \in DOMAIN cv.table
  THEN Some(cv.table[<<user_id, session_id>>])
  ELSE NoneV

\* ConversationRepository.create: put_item
create_conversation(cv, session_id, user_id) ==
  [cv EXCEPT !.table = [k \in DOMAIN cv.table \cup {<<user_id, session_id>>} |->
                          IF k = <<user_id, session_id>> THEN 0 ELSE cv.table[k]]]

\* agent.process_message and the two update_after_message calls
ProcessMessage(cv, user_id, session_id) ==
  [cv EXCEPT !.threads = @ \cup {session_id},
             !.table[<<user_id, session_id>>] = @ + 2]

\* chat_completions: the response (status, session_id) and the
\* conversations it leaves
chat_completions(cv, user_id, session_id) ==
  IF TruthyStr(session_id)
  THEN LET existing == get_conversation(cv, user_id, session_id)
           cv1 == IF ~IsNone(existing) THEN cv
                  ELSE create_conversation(cv, session_id, user_id)
       IN [status |-> 200, session_id |-> session_id,
           conversations |-> ProcessMessage(cv1, user_id, session_id)]
  ELSE LET new_id == NewSessionIds[cv.created + 1]
           cv1 == create_conversation([cv EXCEPT !.created = @ + 1],
                                      new_id, user_id)
       IN [status |-> 200, session_id |-> new_id,
           conversations |-> ProcessMessage(cv1, user_id, new_id)]

ChatInit == Init

ChatCompletions ==
  /\ conversations.requests < MaxChats
  /\ \E user_id \in UserIds, session_id \in RequestSessionIds(conversations) :
       LET r == chat_completions(conversations, user_id, session_id) IN
       /\ conversations' = [r.conversations EXCEPT !.requests = @ + 1]
       /\ probe' = [op |-> "chat_completions", done |-> TRUE,
                    in |-> <<user_id, session_id>>,
                    out |-> [status |-> r.status, session_id |-> r.session_id]]
  /\ UNCHANGED <<inventory, line_items, order, checkpoint, turn, invoked,
                 next_id, store, sessions, turns>>

ChatNext == ChatCompletions

ChatSpec == ChatInit /\ [][ChatNext]_vars

(* ------------------- db sessions at work on the store ----------------- *)
\* Every request works on the store through a db session of its own
\* (get_db_session): it reads committed rows, sends its UPDATEs with
\* Session.flush() inside its open transaction, and commits at the end of
\* the request.  A row a session has updated is locked until that session
\* ends; an UPDATE sets the columns to the values the session computed.
SessionIds == {1, 2}

\* the store the requests meet: one order of 4 Small/Navy and 6 Small/Red
ConcStore ==
  create_order(EmptyStore, MIN_LEAD_TIME_CREATED,
               <<[inventory_id |-> 1, quantity |-> 4],
                 [inventory_id |-> 3, quantity |-> 6]>>).store

\* the calls a request may make: create_order for one slot, or
\* modify_line_item on a line item of the order
ConcCalls ==
  {<<"create_order", MIN_LEAD_TIME_CREATED, items>> :
     items \in {r \in CreateRequests : Len(r) = 1}}
  \cup
  {<<"modify_line_item", 1, line_item_id, new_quantity, new_size_id, new_color_id>> :
     line_item_id \in {1, 2}, new_quantity \in {NoneV, Some(12)},
     new_size_id \in NewSizes, new_color_id \in NewColors}

\* a db session: where its request stands (idle, read, flush, committed,
\* raised), the call, the rows as the session has read them and the
\* number of inventory UPDATEs it has flushed
IdleSession == [pc |-> "idle", call |-> <<>>, view |-> EmptyStore, flushed |-> 0]

\* the call of a session on the rows it has read
RunOnView(call, view) ==
  IF call[1] = "create_order" THEN create_order(view, call[2], call[3])
  ELSE modify_line_item(view, call[2], call[3], call[4], call[5], call[6])

\* modify_line_item with a new size or color looks the target row up
NeedsNewInventory(call) ==
  call[1] = "modify_line_item" /\ (call[5] /= Null \/ call[6] /= Null)

\* the row of the line item a modify_line_item call works on
OldInventory(call, view) == view.line_items[call[3]].inventory_id

\* the rows get_by_product_color_size finds for the call
NewInventory(call, view) ==
  get_by_product_color_size(
    IF call[6] /= Null THEN call[6] ELSE InvColor[OldInventory(call, view)],
    IF call[5] /= Null THEN call[5] ELSE InvSize[OldInventory(call, view)])

\* the inventory rows a call updates, in the order of its
\* _inventory_repo.update calls
FlushRows(call, view) ==
  IF call[1] = "create_order" THEN <<call[3][1].inventory_id>>
  ELSE IF NeedsNewInventory(call)
  THEN <<OldInventory(call, view)>>
       \o <<CHOOSE i \in NewInventory(call, view) : TRUE>>
  ELSE IF ~IsNone(call[4]) THEN <<OldInventory(call, view)>>
  ELSE <<>>

\* the inventory rows as the session has them at its j-th flush: the
\* release on the old row comes first in a size/color change
RowsAtFlush(call, view, j) ==
  IF j = Len(FlushRows(call, view)) THEN RunOnView(call, view).store.inventory
  ELSE release(view.inventory, OldInventory(call, view),
               view.line_items[call[3]].quantity)

\* the rows a session holds locked
Locked(s) ==
  IF s \in DOMAIN sessions /\ sessions[s].pc = "flush"
  THEN {FlushRows(sessions[s].call, sessions[s].view)[j] :
          j \in 1..sessions[s].flushed}
  ELSE {}

\* a flush that writes through to the committed rows
flush_autocommit(committed_rows, session_rows, row) ==
  [committed_rows EXCEPT ![row] = session_rows[row]]

\* Session.flush(): the UPDATE of the row is sent inside the session's
\* open transaction; the committed rows stay as they are
flush(committed_rows, session_rows, row) == committed_rows

\* session.commit(): the rows the session has updated and inserted become
\* the committed ones
commit(st, call, view) ==
  LET r == RunOnView(call, view).store
      rows == FlushRows(call, view)
      inv == [i \in InvIds |->
                IF \E j \in DOMAIN rows : rows[j] = i THEN r.inventory[i]
                ELSE st.inventory[i]]
  IN
  IF call[1] = "create_order"
  THEN LET order_id == Len(st.orders) + 1
           line_item == [r.line_items[view.next_line_item_id] EXCEPT
                           !.order_id = order_id]
       IN [st EXCEPT !.inventory = inv,
                     !.orders = Append(@, r.orders[Len(r.orders)]),
                     !.line_items = (st.next_line_item_id :> line_item) @@ @,
                     !.next_line_item_id = @ + 1]
  ELSE [st EXCEPT !.inventory = inv,
                  !.line_items[call[3]] = r.line_items[call[3]],
                  !.orders[call[2]].total_amount =
                     r.orders[call[2]].total_amount]

KeepsDialogue ==
  UNCHANGED <<inventory, line_items, order, checkpoint, turn, invoked,
              next_id, probe, turns, conversations>>

ConcInit ==
  /\ DialogueInit /\ probe = NoProbe /\ turns = <<>>
  /\ store = ConcStore
  /\ sessions = [s \in SessionIds |-> IdleSession]

\* the request starts: it reads the order, the line item and the line
\* item's inventory row (create_order: the requested row)
Begin(s) ==
  /\ sessions[s].pc = "idle"
  /\ \E call \in ConcCalls :
       LET r == RunOnView(call, store) IN
       sessions' = [sessions EXCEPT ![s] =
         [pc |-> IF NeedsNewInventory(call) THEN "read"
                 ELSE IF r.raised /= Null THEN "raised"
                 ELSE "flush",
          call |-> call, view |-> store, flushed |-> 0]]
  /\ UNCHANGED store
  /\ KeepsDialogue

\* get_by_product_color_size and the availability check on the row it
\* returns; the row of the line item stays as the session has read it
ReadNewInventory(s) ==
  /\ sessions[s].pc = "read"
  /\ LET call == sessions[s].call
         old_id == OldInventory(call, sessions[s].view)
         view == [sessions[s].view EXCEPT
                    !.inventory = [i \in InvIds |->
                                     IF i = old_id THEN @[i]
                                     ELSE store.inventory[i]]]
     IN sessions' = [sessions EXCEPT
                       ![s].view = view,
                       ![s].pc = IF RunOnView(call, view).raised /= Null
                                 THEN "raised" ELSE "flush"]
  /\ UNCHANGED store
  /\ KeepsDialogue

\* _inventory_repo.update: the next UPDATE of an inventory row; it waits
\* while another session holds the row
Flush(s) ==
  /\ sessions[s].pc = "flush"
  /\ LET call == sessions[s].call
         view == sessions[s].view
         j == sessions[s].flushed + 1
     IN /\ j <= Len(FlushRows(call, view))
        /\ \A t \in SessionIds \ {s} : FlushRows(call, view)[j] \notin Locked(t)
        /\ store' = [store EXCEPT
                       !.inventory = flush(@, RowsAtFlush(call, view, j),
                                           FlushRows(call, view)[j])]
        /\ sessions' = [sessions EXCEPT ![s].flushed = j]
  /\ KeepsDialogue

\* the request ends: the line item and the order are updated and the
\* session commits
CommitSession(s) ==
  /\ sessions[s].pc = "flush"
  /\ sessions[s].flushed = Len(FlushRows(sessions[s].call, sessions[s].view))
  /\ store' = commit(store, sessions[s].call, sessions[s].view)
  /\ sessions' = [sessions EXCEPT ![s].pc = "committed"]
  /\ KeepsDialogue

ConcNext ==
  \E s \in SessionIds :
    \/ Begin(s)
    \/ ReadNewInventory(s)
    \/ Flush(s)
    \/ CommitSession(s)

ConcSpec == ConcInit /\ [][ConcNext]_vars

(* ------------------------- the dialogue machine ----------------------- *)
\* the last turn returned a response (no exception left process_message)
Returned == turn.ran /\ turn.raised = Null

\* the last turn invoked OrderTools.modify_line_item or remove_line_item
Mutated == turn.mutation_calls > 0

\* the last turn was a POLICY_CONFIRMATION turn that began with a pending
\* modification and a PENDING policy confirmation, and the reply was
\* interpreted as CONFIRMED
AcceptedPendingConditions ==
  /\ turn.intent = "POLICY_CONFIRMATION"
  /\ turn.start_pending
  /\ turn.start_policy_status = "pending"
  /\ turn.interpretation = "CONFIRMED"

\* C1: a mutation is invoked only in the turn in which the policy returned
\* ALLOWED for the modification, or in a POLICY_CONFIRMATION turn that
\* began with a pending modification and policy_confirmation_status
\* PENDING and whose reply was interpreted as CONFIRMED, whatever intent
\* the classifier returns.
C1_MutationOnlyWhenCleared ==
  Mutated => turn.decision = "allowed" \/ AcceptedPendingConditions

\* C2: for each pending_modification_id the mutation is invoked at most
\* once over the turns of a session, and exactly once in the turn in which
\* the confirmed modification is cleared by the policy (ALLOWED, or
\* CONDITIONAL followed by acceptance).
C2_MutationOncePerModification ==
  /\ invoked <= 1
  /\ turn.decision = "allowed" \/ AcceptedPendingConditions
       => turn.mutation_calls = 1

\* C3: a turn routed as CONFIRMATION that starts with
\* pending_modification_status EXECUTED returns the fixed "already applied"
\* response, invokes no mutation and leaves every persisted session field
\* as it was.
C3_ConfirmationAfterExecuted ==
  turn.ran /\ turn.intent = "CONFIRMATION" /\ turn.start_status = "executed"
    => /\ Returned
       /\ turn.response = "already_applied"
       /\ turn.mutation_calls = 0
       /\ turn.policy_calls = 0
       /\ turn.unchanged
       /\ checkpoint.pending_modification_status = "executed"

C3_Witness ==
  /\ turn.ran /\ turn.intent = "CONFIRMATION" /\ turn.start_status = "executed"
  /\ turn.response = "already_applied"
  /\ line_items /= InitLineItems

\* C4: when the policy evaluation of a confirmed modification returns
\* DENIED, the turn ends with no mutation invoked, pending_modification
\* null and pending_modification_status CANCELLED.
C4_DeniedCancels ==
  turn.decision = "denied"
    => /\ Returned
       /\ turn.mutation_calls = 0
       /\ IsNone(checkpoint.pending_modification)
       /\ checkpoint.pending_modification_status = "cancelled"

C4_Witness ==
  /\ turn.decision = "denied"
  /\ turn.start_pending
  /\ checkpoint.pending_modification_status = "cancelled"

\* C5: when the execution of a confirmed modification fails with a domain
\* error the turn ends with pending_modification cleared and
\* pending_modification_status not EXECUTED; EXECUTED is set only when the
\* mutation succeeded.
C5_FailedExecutionIsNotExecuted ==
  /\ Returned /\ Mutated /\ ~turn.mutation_success
       => /\ IsNone(checkpoint.pending_modification)
          /\ checkpoint.pending_modification_status /= "executed"
  /\ Returned /\ turn.start_status /= "executed"
       /\ checkpoint.pending_modification_status = "executed"
       => turn.mutation_success

\* C6: a turn that starts with policy_confirmation_status PENDING has the
\* intent POLICY_CONFIRMATION without a call of the classifier; every
\* other turn calls the classifier exactly once and takes the route of the
\* intent it returned.
RouteOf(intent) ==
  CASE intent = "ORDER_INQUIRY" -> "order_summary"
    [] intent = "ORDER_CHANGE" -> "fetch_order_details"
    [] intent = "CONFIRMATION" -> "confirm_understanding"
    [] intent = "POLICY_CONFIRMATION" -> "policy_condition_confirmation"
    [] intent = "OFF_TOPIC" -> "off_topic_response"
    [] OTHER -> "unclear_intent_response"

C6_PendingPolicyForcesIntent ==
  turn.ran =>
    /\ turn.start_policy_status = "pending"
         => turn.intent = "POLICY_CONFIRMATION" /\ turn.classifier_calls = 0
    /\ turn.start_policy_status /= "pending" => turn.classifier_calls = 1
    /\ turn.route = RouteOf(turn.intent)

C6_Witness ==
  /\ turn.ran
  /\ turn.start_policy_status = "pending"
  /\ turn.intent = "POLICY_CONFIRMATION"
  /\ turn.classifier_calls = 0
  /\ turn.interpretation = "UNCLEAR"

\* C7: when the policy evaluation returns CONDITIONAL the turn sets
\* policy_confirmation_status to PENDING, invokes no mutation, keeps the
\* modification pending with status PENDING and ends; the next turn of the
\* session is handled as POLICY_CONFIRMATION.
ConditionalTurn == turn.decision = "conditional"

C7_ConditionalAsksFirst ==
  /\ [](ConditionalTurn
          => /\ Returned
             /\ turn.mutation_calls = 0
             /\ turn.response = "llm_policy_conditions"
             /\ checkpoint.policy_confirmation_status = "pending"
             /\ ~IsNone(checkpoint.pending_modification)
             /\ checkpoint.pending_modification_status = "pending")
  /\ [][ConditionalTurn
          => /\ turn'.intent = "POLICY_CONFIRMATION"
             /\ turn'.route = "policy_condition_confirmation"
             /\ turn'.classifier_calls = 0]_vars

C7_Witness ==
  /\ ConditionalTurn
  /\ checkpoint.policy_confirmation_status = "pending"
  /\ ~IsNone(checkpoint.pending_modification)

\* C8: in a POLICY_CONFIRMATION turn whose reply is interpreted as UNCLEAR
\* or CORRECTION no mutation is invoked, the response asks again for yes
\* or no, and pending_modification, pending_modification_status and
\* policy_confirmation_status are left as they were, also when
\* policy_confirmation_status was left at ACCEPTED by an earlier
\* modification.
C8_UnclearPolicyReplyChangesNothing ==
  turn.intent = "POLICY_CONFIRMATION"
  /\ turn.interpretation \in {"UNCLEAR", "CORRECTION"}
    => /\ Returned
       /\ turn.mutation_calls = 0
       /\ turn.response = "need_yes_or_no"
       /\ ~IsNone(checkpoint.pending_modification) = turn.start_pending
       /\ checkpoint.pending_modification_status = turn.start_status
       /\ checkpoint.policy_confirmation_status = turn.start_policy_status

\* C9: a reply interpreted as REJECTED, in the understanding confirmation
\* or in the policy confirmation, ends the turn with pending_modification
\* cleared, pending_modification_status CANCELLED and no mutation; in the
\* policy confirmation policy_confirmation_status becomes REJECTED.
C9_RejectedCancels ==
  turn.interpretation = "REJECTED"
    => /\ Returned
       /\ turn.mutation_calls = 0
       /\ turn.response = "cancel_ack"
       /\ IsNone(checkpoint.pending_modification)
       /\ checkpoint.pending_modification_status = "cancelled"
       /\ turn.intent = "POLICY_CONFIRMATION"
            => checkpoint.policy_confirmation_status = "rejected"

C9_Witness ==
  /\ turn.interpretation = "REJECTED"
  /\ turn.intent = "CONFIRMATION"
  /\ turn.start_status = "pending"
  /\ checkpoint.pending_modification_status = "cancelled"

\* C10: in a CONFIRMATION turn with a PENDING modification whose reply is
\* interpreted as UNCLEAR the persisted session state is untouched, no
\* policy evaluation and no mutation happen, and the response asks the
\* user to clarify.
C10_UnclearConfirmationChangesNothing ==
  turn.intent = "CONFIRMATION" /\ turn.start_status = "pending"
  /\ turn.start_pending /\ turn.interpretation = "UNCLEAR"
    => /\ Returned
       /\ turn.unchanged
       /\ ~IsNone(checkpoint.pending_modification)
       /\ checkpoint.pending_modification_status = "pending"
       /\ turn.policy_calls = 0
       /\ turn.mutation_calls = 0
       /\ turn.response = "clarify_confirmation"

C10_Witness ==
  /\ turn.intent = "CONFIRMATION" /\ turn.start_status = "pending"
  /\ turn.interpretation = "UNCLEAR"
  /\ turn.response = "clarify_confirmation"
  /\ turn.interpret_calls = 2

(* ------------------------ parsing and fail-safes ---------------------- *)
\* the raw output is exactly one of the six intent tokens (fences stripped)
IsIntentToken(raw) ==
  LET content == strip_code_fences(raw) IN
  Len(content) = 1 /\ content[1].t = "text" /\ content[1].s \in Intents

\* the raw output is one JSON object whose "intent" is one of the six
ValidatesAsIntent(raw) ==
  LET content == strip_code_fences(raw) IN
  /\ Len(content) = 1 /\ content[1].t = "json"
  /\ "intent" \in DOMAIN content[1].obj
  /\ content[1].obj["intent"] \in Intents

\* C13: for every output of the intent classifier the resulting intent is
\* one of the six intents; an output that is none of the six tokens and
\* does not validate as an intent result gives UNCLEAR (no error is
\* raised: the result is always an intent).
C13_IntentAlwaysInClosedSet ==
  probe.op = "parse_intent" /\ probe.done
    => /\ probe.out \in {"ORDER_INQUIRY", "ORDER_CHANGE", "CONFIRMATION",
                          "POLICY_CONFIRMATION", "OFF_TOPIC", "UNCLEAR"}
       /\ IsIntentToken(probe.in)
            => probe.out = strip_code_fences(probe.in)[1].s
       /\ ~IsIntentToken(probe.in) /\ ~ValidatesAsIntent(probe.in)
            => probe.out = "UNCLEAR"

C13_Witness ==
  /\ probe.op = "parse_intent" /\ probe.done
  /\ Len(probe.in) = 3 /\ probe.in[1] = Fence
  /\ probe.in[2] = Json([intent |-> "maybe"])
  /\ probe.out = "UNCLEAR"

\* the outcome of parsing and validating one extractor answer
FirstModification(raw) ==
  normalize_and_validate_modification(strip_code_fences(raw))

\* the outcome of parsing and validating one interpreter answer
FirstInterpretation(raw) ==
  parse_confirmation_interpretation(strip_code_fences(raw))

\* C14: for modification extraction and confirmation interpretation, a
\* first output that fails to parse or validate is followed by exactly one
\* repair call; when the repaired output fails too no further call is
\* made and the result is the safe default (null modification, UNCLEAR
\* interpretation); there is never more than one repair call.
C14_ExactlyOneRepair ==
  /\ probe.op = "parse_modification" /\ probe.done
       => LET first == FirstModification(probe.in[1])
              second == FirstModification(probe.in[2])
          IN /\ probe.out.calls \in {1, 2}
             /\ first.kind = "ok" => probe.out.calls = 1 /\ probe.out.r = first
             /\ first.kind /= "ok" => probe.out.calls = 2
             /\ first.kind /= "ok" /\ second.kind = "ok" => probe.out.r = second
             /\ first.kind /= "ok" /\ second.kind /= "ok"
                  => probe.out.r.kind = "invalid" /\ IsNone(probe.out.r.val)
  /\ probe.op = "interpret_confirmation" /\ probe.done
       => LET first == FirstInterpretation(probe.in[1])
              second == FirstInterpretation(probe.in[2])
          IN /\ probe.out.calls \in {1, 2}
             /\ first.kind = "ok" => probe.out.calls = 1 /\ probe.out.r = first
             /\ first.kind /= "ok" => probe.out.calls = 2
             /\ first.kind /= "ok" /\ second.kind = "ok" => probe.out.r = second
             /\ first.kind /= "ok" /\ second.kind /= "ok"
                  => /\ probe.out.r.kind = "ok"
                     /\ Val(probe.out.r.val).interpretation = "UNCLEAR"

\* the policy evaluator's answer holds a JSON object that validates as a
\* PolicyEvaluationResult
ParsesAsPolicyResult(raw) ==
  LET x == extract_json(raw)
      j == json_loads(x.content)
  IN /\ x.raised = Null
     /\ j.kind = "dict"
     /\ Get(j.obj, "decision", Null) \in {"allowed", "conditional", "denied"}
     /\ Get(j.obj, "change_type", Null) /= Null
     /\ Get(j.obj, "order_status", Null) /= Null

\* C15: for every output of the policy oracle that cannot be parsed into
\* a PolicyEvaluationResult, evaluate_change returns decision DENIED with
\* escalate_to_support set and raises no error.
C15_UnparseablePolicyIsDenied ==
  probe.op = "evaluate_change" /\ probe.done /\ ~ParsesAsPolicyResult(probe.in)
    => /\ probe.out.raised = Null
       /\ probe.out.result.decision = "denied"
       /\ probe.out.result.escalate_to_support

(* --------------------------- corrections ------------------------------ *)
\* C11: in a CONFIRMATION turn interpreted as CORRECTION each of
\* new_quantity, new_size and new_color takes the corrected value when the
\* correction is non-null and keeps its value otherwise, every other field
\* is unchanged, and the turn goes on to policy evaluation as for
\* CONFIRMED.
C11_CorrectionMergesAndProceeds ==
  probe.op = "confirm_understanding" /\ probe.done
  /\ probe.in[2][1].obj["interpretation"] = "CORRECTION"
    => LET before == probe.in[1]
           reply == probe.in[2][1].obj
           merged ==
             [before EXCEPT
                !.new_quantity = IF reply["corrected_quantity"] /= NoneV
                                 THEN reply["corrected_quantity"] ELSE @,
                !.new_size = IF reply["corrected_size"] /= Null
                             THEN reply["corrected_size"] ELSE @,
                !.new_color = IF reply["corrected_color"] /= Null
                              THEN reply["corrected_color"] ELSE @]
       IN /\ probe.out.raised = Null
          /\ probe.out.pending_modification = Some(merged)
          /\ probe.out.pending_modification_status = "pending"
          /\ probe.out.route = "policy_evaluation"

(* ---------------------------- extraction ------------------------------ *)
\* C12: after an ORDER_CHANGE turn the session holds a pending
\* modification with status PENDING and a fresh id exactly when the
\* extraction gave a valid MODIFY or REMOVE_ITEM; when the extraction
\* failed or gave UNSUPPORTED the pending modification, its id and its
\* status are all null; no mutation is invoked in the turn.
C12_OrderChangeCreatesPendingOnly ==
  [][turn'.ran /\ turn'.intent = "ORDER_CHANGE"
       => LET valid == turn'.extracted \in {"modify", "remove_item"} IN
          /\ valid <=> /\ ~IsNone(checkpoint'.pending_modification)
                        /\ checkpoint'.pending_modification_status = "pending"
                        /\ checkpoint'.pending_modification_id = next_id
                        /\ next_id' = next_id + 1
          /\ ~valid => /\ IsNone(checkpoint'.pending_modification)
                       /\ checkpoint'.pending_modification_id = 0
                       /\ checkpoint'.pending_modification_status = Null
          /\ turn'.mutation_calls = 0]_vars

(* ------------------------- the end of a turn -------------------------- *)
\* C16: whatever the session state, the oracle's outputs and the outcome
\* of the order store, a turn ends with one non-empty response text; no
\* exception leaves process_message.
C16_TurnAlwaysAnswers ==
  turn.ran => turn.raised = Null /\ turn.response /= ""

(* ----------------------- validation on build -------------------------- *)
\* C17: a pending modification held by the session is a MODIFY or a
\* REMOVE_ITEM with non-empty product, size and color; a MODIFY carries at
\* least one of new_quantity, new_size, new_color and a REMOVE_ITEM none
\* of them -- after extraction and after every correction merge.
C17_PendingModificationIsValid ==
  ~IsNone(checkpoint.pending_modification)
    => LET m == Val(checkpoint.pending_modification)
           news == {f \in {"new_size", "new_color"} : m[f] /= Null}
                     \cup {f \in {"new_quantity"} : m[f] /= NoneV}
       IN /\ m.action \in {"modify", "remove_item"}
          /\ \A f \in {"product_name", "size_name", "color_name"} :
               m[f] \notin {Null, ""}
          /\ m.action = "modify" => news /= {}
          /\ m.action = "remove_item" => news = {}

\* a corrected modification is held after a correction merge
C17_Witness ==
  /\ turn.ran /\ turn.raised = Null
  /\ turn.interpretation = "CORRECTION"
  /\ ~IsNone(checkpoint.pending_modification)
  /\ Val(checkpoint.pending_modification).new_quantity = Some(5)

(* ------------------------ status transitions -------------------------- *)
\* C18: pending_modification_status changes to EXECUTED or CANCELLED only
\* in a turn that started with a pending modification whose status was
\* PENDING; a turn that starts with no pending modification never changes
\* the status to EXECUTED or CANCELLED.
C18_SettledOnlyFromPending ==
  (/\ turn.ran
   /\ checkpoint.pending_modification_status \in {"executed", "cancelled"}
   /\ checkpoint.pending_modification_status /= turn.start_status)
    => turn.start_pending /\ turn.start_status = "pending"

\* a turn that found a PENDING modification left it EXECUTED
C18_Witness ==
  /\ turn.ran /\ turn.start_pending /\ turn.start_status = "pending"
  /\ checkpoint.pending_modification_status = "executed"

(* --------------------------- the order store -------------------------- *)
\* C19: for every inventory slot available_qty + reserved_qty is the same
\* after any sequence of create_order, modify_line_item, remove_line_item
\* and cancel_order as before it (so it is across the old and the new slot
\* of a size/color change).
C19_StockIsConserved ==
  \A i \in InvIds :
    store.inventory[i].available_qty + store.inventory[i].reserved_qty
      = StockInit[i].available_qty + StockInit[i].reserved_qty

\* a size change has moved a reservation from one slot to another
C19_Witness ==
  /\ probe.op = "modify_line_item" /\ probe.out = Null
  /\ probe.in[4] = "Medium"
  /\ store.line_items[probe.in[2]].inventory_id = 2
  /\ store.inventory[2].reserved_qty > 0
  /\ store.inventory[1].reserved_qty = 0

\* C20: a quantity-only modify_line_item with new_qty <= old_qty on a line
\* item of the order always succeeds; afterwards the slot's available_qty
\* is larger and its reserved_qty smaller by old_qty - new_qty, the line
\* item's quantity is new_qty and the order's total_amount is the sum of
\* unit_price * quantity over the order's line items.
C20_QuantityDecrease ==
  [][LET order_id == probe'.in[1]
         line_item_id == probe'.in[2]
         new_qty == Val(probe'.in[3])
         old_qty == store.line_items[line_item_id].quantity
         slot == store.line_items[line_item_id].inventory_id
     IN (/\ probe'.op = "modify_line_item"
         /\ ~IsNone(probe'.in[3]) /\ probe'.in[4] = Null /\ probe'.in[5] = Null
         /\ store.line_items[line_item_id].order_id = order_id
         /\ new_qty <= old_qty)
          => /\ probe'.out = Null
             /\ store'.inventory[slot].available_qty
                  = store.inventory[slot].available_qty + (old_qty - new_qty)
             /\ store'.inventory[slot].reserved_qty
                  = store.inventory[slot].reserved_qty - (old_qty - new_qty)
             /\ store'.line_items[line_item_id].quantity = new_qty
             /\ store'.orders[order_id].total_amount
                  = LineTotal(LineItemsOf(store', order_id))]_vars

\* a quantity-only decrease has taken an order of 10 down to 4
C20_Witness ==
  /\ probe.op = "modify_line_item" /\ probe.out = Null
  /\ probe.in[3] = Some(4) /\ probe.in[4] = Null /\ probe.in[5] = Null
  /\ store.line_items[probe.in[2]].quantity = 4
  /\ store.orders[probe.in[1]].total_amount = 4 * BasePrice

\* C21: a quantity-only modify_line_item that raises the quantity by
\* delta = new_qty - old_qty > 0 succeeds when the slot has
\* available_qty >= delta, and then the slot's available_qty is smaller and
\* its reserved_qty larger by delta; otherwise it fails with
\* InsufficientInventoryError and the inventory, the line items and the
\* orders (with their totals) are as before the call.
C21_QuantityIncrease ==
  [][LET order_id == probe'.in[1]
         line_item_id == probe'.in[2]
         delta == Val(probe'.in[3]) - store.line_items[line_item_id].quantity
         slot == store.line_items[line_item_id].inventory_id
     IN (/\ probe'.op = "modify_line_item"
         /\ ~IsNone(probe'.in[3]) /\ probe'.in[4] = Null /\ probe'.in[5] = Null
         /\ store.line_items[line_item_id].order_id = order_id
         /\ delta > 0)
          => IF store.inventory[slot].available_qty >= delta
             THEN /\ probe'.out = Null
                  /\ store'.inventory[slot].available_qty
                       = store.inventory[slot].available_qty - delta
                  /\ store'.inventory[slot].reserved_qty
                       = store.inventory[slot].reserved_qty + delta
             ELSE /\ probe'.out = "InsufficientInventoryError"
                  /\ store'.inventory = store.inventory
                  /\ store'.line_items = store.line_items
                  /\ store'.orders = store.orders]_vars

\* an increase from 4 to 12 was refused on a slot with less than 8 left
C21_Witness ==
  /\ probe.op = "modify_line_item"
  /\ probe.out = "InsufficientInventoryError"
  /\ probe.in[3] = Some(12) /\ probe.in[4] = Null /\ probe.in[5] = Null
  /\ store.line_items[probe.in[2]].quantity = 4
  /\ store.inventory[store.line_items[probe.in[2]].inventory_id].available_qty < 8

\* C22: a modify_line_item that changes the size and/or the color of a line
\* item of the order, with target_quantity the new quantity if one is given
\* and the old quantity otherwise: if the target slot exists and has
\* available_qty >= target_quantity the call succeeds, the old quantity
\* goes from reserved to available on the old slot, target_quantity goes
\* from available to reserved on the target slot, and the line item refers
\* to the target slot with quantity target_quantity and the base price as
\* unit price; otherwise the call fails and inventory and line items are
\* as before.
C22_SizeColorChange ==
  [][LET order_id == probe'.in[1]
         line_item_id == probe'.in[2]
         old_slot == store.line_items[line_item_id].inventory_id
         old_quantity == store.line_items[line_item_id].quantity
         target_quantity == IF IsNone(probe'.in[3]) THEN old_quantity
                            ELSE Val(probe'.in[3])
         target == get_by_product_color_size(
                     IF probe'.in[5] = Null THEN InvColor[old_slot]
                     ELSE probe'.in[5],
                     IF probe'.in[4] = Null THEN InvSize[old_slot]
                     ELSE probe'.in[4])
     IN (/\ probe'.op = "modify_line_item"
         /\ (probe'.in[4] /= Null \/ probe'.in[5] /= Null)
         /\ store.line_items[line_item_id].order_id = order_id)
          => IF \E t \in target :
                  store.inventory[t].available_qty >= target_quantity
             THEN /\ probe'.out = Null
                  /\ \A t \in target :
                       /\ \A i \in InvIds :
                            /\ store'.inventory[i].available_qty
                                 = store.inventory[i].available_qty
                                   + (IF i = old_slot THEN old_quantity ELSE 0)
                                   - (IF i = t THEN target_quantity ELSE 0)
                            /\ store'.inventory[i].reserved_qty
                                 = store.inventory[i].reserved_qty
                                   - (IF i = old_slot THEN old_quantity ELSE 0)
                                   + (IF i = t THEN target_quantity ELSE 0)
                       /\ store'.line_items[line_item_id].inventory_id = t
                       /\ store'.line_items[line_item_id].quantity
                            = target_quantity
                       /\ store'.line_items[line_item_id].unit_price
                            = BasePrice
             ELSE /\ probe'.out /= Null
                  /\ store'.inventory = store.inventory
                  /\ store'.line_items = store.line_items]_vars

(* ----------------------- a target without a slot ---------------------- *)
\* the inventory slots a modification's new size and new color name for
\* line item li (none when the size, the color or their combination has no
\* row)
TargetSlots(db, li, modification) ==
  LET old_id == db.line_items[li].inventory_id IN
  {i \in InvIds :
     /\ Lower(InvSize[i]) = Lower(IF TruthyStr(modification.new_size)
                                  THEN modification.new_size
                                  ELSE InvSize[old_id])
     /\ Lower(InvColor[i]) = Lower(IF TruthyStr(modification.new_color)
                                   THEN modification.new_color
                                   ELSE InvColor[old_id])}

\* the pending modification of the session asks for a size/color change
\* of an existing line item to a target without an inventory slot
PendingTargetMissing ==
  /\ ~IsNone(checkpoint.pending_modification)
  /\ LET m == Val(checkpoint.pending_modification)
         li == FindLineItem(DbNow, m.product_name, m.size_name, m.color_name)
     IN /\ m.action = "modify"
        /\ TruthyStr(m.new_size) \/ TruthyStr(m.new_color)
        /\ li /= {}
        /\ \A i \in li : TargetSlots(DbNow, i, m) = {}

\* C23: a turn that executes a size/color change whose target has no
\* inventory slot ends without an exception, with a response that reports
\* the failure, and changes neither inventory nor line items nor the order.
C23_MissingSlotIsDomainError ==
  [][(/\ PendingTargetMissing
      /\ turn'.interpretation /= "CORRECTION"
      /\ turn'.mutation_calls > 0)
       => /\ turn'.raised = Null
          /\ turn'.response /= ""
          /\ ~turn'.mutation_success
          /\ inventory' = inventory
          /\ line_items' = line_items
          /\ order' = order]_vars

\* C24: remove_line_item on a line item of the order is refused with
\* OrderValidationError when the quantities of the order's other line
\* items add up to less than MIN_ORDER_QUANTITY, and then inventory, line
\* items and orders are as before; otherwise it succeeds, the item's
\* quantity goes from reserved to available on its slot, the line item is
\* gone and the order's total_amount is the sum of unit_price * quantity
\* over the remaining line items.
C24_RemoveLineItem ==
  [][LET order_id == probe'.in[1]
         line_item_id == probe'.in[2]
         item == store.line_items[line_item_id]
         all_line_items == LineItemsOf(store, order_id)
         remaining == Restrict(all_line_items,
                               DOMAIN all_line_items \ {line_item_id})
     IN (/\ probe'.op = "remove_line_item"
         /\ item.order_id = order_id)
          => IF TotalQuantity(remaining) < 10
             THEN /\ probe'.out = "OrderValidationError"
                  /\ store'.inventory = store.inventory
                  /\ store'.line_items = store.line_items
                  /\ store'.orders = store.orders
             ELSE /\ probe'.out = Null
                  /\ store'.inventory[item.inventory_id].available_qty
                       = store.inventory[item.inventory_id].available_qty
                         + item.quantity
                  /\ store'.inventory[item.inventory_id].reserved_qty
                       = store.inventory[item.inventory_id].reserved_qty
                         - item.quantity
                  /\ line_item_id \notin DOMAIN store'.line_items
                  /\ LineItemsOf(store', order_id) = remaining
                  /\ store'.orders[order_id].total_amount
                       = LineTotal(remaining)]_vars

\* a line item was removed from an order that keeps 12 pieces
C24_Witness ==
  /\ probe.op = "remove_line_item" /\ probe.out = Null
  /\ probe.in[2] \notin DOMAIN store.line_items
  /\ TotalQuantity(LineItemsOf(store, probe.in[1])) = 12
  /\ store.orders[probe.in[1]].total_amount = 12 * BasePrice

\* C25: after any sequence of create_order, modify_line_item and
\* remove_line_item calls (and cancellations), every order's total_amount
\* is the sum of unit_price * quantity over the line items the order has
\* now.
C25_TotalIsSumOfLineItems ==
  \A order_id \in DOMAIN store.orders :
    LET ids == {i \in DOMAIN store.line_items :
                  store.line_items[i].order_id = order_id}
    IN store.orders[order_id].total_amount
         = SumOver([i \in ids |-> store.line_items[i].unit_price
                                    * store.line_items[i].quantity], ids)

\* a modification has brought an order of 4 + 6 pieces to 12 + 6
C25_Witness ==
  /\ probe.op = "modify_line_item" /\ probe.out = Null
  /\ Cardinality(DOMAIN LineItemsOf(store, probe.in[1])) = 2
  /\ TotalQuantity(LineItemsOf(store, probe.in[1])) = 18
  /\ store.orders[probe.in[1]].total_amount = 18 * BasePrice

(* ------------------------ concurrent requests -------------------------- *)
\* what a committed session has reserved on slot i by its own account
\* (negative for a release)
ReservedBy(s, i) ==
  IF sessions[s].pc = "committed"
  THEN RunOnView(sessions[s].call, sessions[s].view).store.inventory[i].reserved_qty
         - sessions[s].view.inventory[i].reserved_qty
  ELSE 0

\* every request has ended
AllEnded == \A s \in DOMAIN sessions : sessions[s].pc \in {"committed", "raised"}

\* C26: under every interleaving of two requests (create_order,
\* modify_line_item), each in its own db session, no available_qty is ever
\* below 0, and when both have ended every slot's reserved_qty is its
\* initial value plus what the requests that succeeded have reserved.
C26_NoOversellNoLostUpdate ==
  /\ \A i \in InvIds : store.inventory[i].available_qty >= 0
  /\ AllEnded =>
       \A i \in InvIds :
         store.inventory[i].reserved_qty
           = ConcStore.inventory[i].reserved_qty
             + SumOver([s \in DOMAIN sessions |-> ReservedBy(s, i)],
                       DOMAIN sessions)

\* the invocations of process_message that have read the checkpoint and
\* not yet written it
InFlight == {t \in DOMAIN turns : turns[t].pc = "read"}

\* C27: of the invocations of process_message for one session_id at most
\* one is between its checkpoint read and its checkpoint write, and no
\* pending modification is handed to the mutation by two confirming turns.
C27_OneTurnInFlight ==
  /\ Cardinality(InFlight) <= 1
  /\ invoked <= 1


(* ------------------- a size or color change seen from outside --------- *)
\* the sessions that have sent an UPDATE or committed
Writers ==
  {s \in DOMAIN sessions :
     \/ sessions[s].pc = "committed"
     \/ sessions[s].pc = "flush" /\ sessions[s].flushed > 0}

\* the quantity the line items of the store hold on an inventory row
HeldOn(st, i) ==
  SumOver([li \in DOMAIN st.line_items |->
             IF st.line_items[li].inventory_id = i
             THEN st.line_items[li].quantity ELSE 0],
          DOMAIN st.line_items)

\* the session is between the release on the old row and the
\* reservation on the new row of a size or color change
MidChange(s) ==
  /\ sessions[s].pc = "flush"
  /\ NeedsNewInventory(sessions[s].call)
  /\ Len(FlushRows(sessions[s].call, sessions[s].view)) = 2
  /\ sessions[s].flushed = 1

\* C28: the rows other operations read never show a size or color change
\* half done: as long as no second request has written, every line item's
\* quantity is reserved on the row the line item points to and on no
\* other (reserved_qty is the sum of the row's line items, and available
\* plus reserved is the row's stock), also while a change stands between
\* its release and its reservation.
C28_ChangeIsOneStep ==
  Cardinality(Writers) <= 1 =>
    \A i \in InvIds :
      /\ store.inventory[i].reserved_qty = HeldOn(store, i)
      /\ store.inventory[i].available_qty + store.inventory[i].reserved_qty
           = StockInit[i].available_qty + StockInit[i].reserved_qty

\* a size or color change has released the old row in its session and
\* not yet reserved the new one, and no other request has written
C28_Witness ==
  /\ Cardinality(Writers) <= 1
  /\ \E s \in DOMAIN sessions : MidChange(s)

\* the change is then committed: the line item points to the new row
C28_WitnessCommitted ==
  /\ Cardinality(Writers) <= 1
  /\ \E s \in DOMAIN sessions :
       /\ sessions[s].pc = "committed"
       /\ NeedsNewInventory(sessions[s].call)
       /\ store.line_items[sessions[s].call[3]].inventory_id
            /= ConcStore.line_items[sessions[s].call[3]].inventory_id


(* ------------------- the life of an order ----------------------------- *)
\* one step along the sequence of the statuses
StepsForward ==
  {<<"CREATED", "APPROVED">>, <<"APPROVED", "IN_PRODUCTION">>,
   <<"IN_PRODUCTION", "READY_TO_SHIP">>, <<"READY_TO_SHIP", "SHIPPED">>}

\* C29: over the update_order_status and cancel_order calls an order's
\* status changes only by one step forward (through update_order_status)
\* or to CANCELLED (through cancel_order); from SHIPPED and from CANCELLED
\* it changes no more; and an update_order_status call that asks for
\* anything but the next step raises InvalidStateTransitionError and
\* leaves the order's status and status history as they were.
C29_StatusAdvancesOneStep ==
  [][\A o \in DOMAIN store.orders :
       LET before == store.orders[o]
           after == store'.orders[o]
       IN
       /\ before.status /= after.status =>
            \/ /\ probe'.op = "update_order_status"
               /\ <<before.status, after.status>> \in StepsForward
            \/ /\ probe'.op = "cancel_order"
               /\ after.status = "CANCELLED"
       /\ before.status \in {"SHIPPED", "CANCELLED"} =>
            after.status = before.status
       /\ (/\ probe'.op = "update_order_status"
           /\ probe'.in[1] = o
           /\ <<before.status, probe'.in[2]>> \notin StepsForward)
          => /\ probe'.out = "InvalidStateTransitionError"
             /\ after.status = before.status
             /\ after.history = before.history]_vars

\* an order has gone the whole way to SHIPPED, the other one is
\* CANCELLED, and the last request for a new status was refused
C29_Witness ==
  /\ probe.op = "update_order_status"
  /\ probe.out = "InvalidStateTransitionError"
  /\ \E o \in DOMAIN store.orders :
       store.orders[o].history
         = <<"CREATED", "APPROVED", "IN_PRODUCTION", "READY_TO_SHIP", "SHIPPED">>
  /\ \E o \in DOMAIN store.orders : store.orders[o].status = "CANCELLED"

(* ------------------- cancel_order ------------------------------------- *)
\* the quantity the line items of an order hold on an inventory row
HeldByOrder(st, order_id, i) ==
  SumOver([li \in DOMAIN st.line_items |->
             IF st.line_items[li].order_id = order_id
                /\ st.line_items[li].inventory_id = i
             THEN st.line_items[li].quantity ELSE 0],
          DOMAIN st.line_items)

\* C30: cancel_order on an order that is neither READY_TO_SHIP nor
\* SHIPPED moves the quantity of each of its line items from reserved_qty
\* to available_qty on the item's row and sets the status to CANCELLED;
\* on a READY_TO_SHIP or SHIPPED order it raises
\* InvalidOrderModificationError and leaves inventory and orders alone.
C30_CancelOrder ==
  [][probe'.op = "cancel_order" =>
       LET o == probe'.in[1] IN
       IF store.orders[o].status \in {"READY_TO_SHIP", "SHIPPED"}
       THEN /\ probe'.out = "InvalidOrderModificationError"
            /\ store'.inventory = store.inventory
            /\ store'.orders = store.orders
       ELSE /\ probe'.out = Null
            /\ store'.orders[o].status = "CANCELLED"
            /\ \A i \in InvIds :
                 /\ store'.inventory[i].reserved_qty
                      = store.inventory[i].reserved_qty - HeldByOrder(store, o, i)
                 /\ store'.inventory[i].available_qty
                      = store.inventory[i].available_qty + HeldByOrder(store, o, i)]_vars

\* one order has been cancelled and its rows released, and the cancel of
\* the other, READY_TO_SHIP or SHIPPED, has just been refused
C30_Witness ==
  /\ probe.op = "cancel_order"
  /\ probe.out = "InvalidOrderModificationError"
  /\ store.orders[probe.in[1]].status \in {"READY_TO_SHIP", "SHIPPED"}
  /\ \E o \in DOMAIN store.orders :
       /\ store.orders[o].status = "CANCELLED"
       /\ \A li \in DOMAIN store.line_items :
            store.line_items[li].order_id = o
              => store.inventory[store.line_items[li].inventory_id].reserved_qty = 0


(* ------------------- create_order refused ----------------------------- *)
\* C31: a create_order request whose quantities add up to less than 10,
\* that has a line item of more than 500, or whose delivery date is less
\* than 14 days from today raises OrderValidationError, and the orders,
\* the line items and the inventory rows stay as they were.
C31_CreateOrderValidation ==
  [][(/\ probe'.op = "create_order"
      /\ \/ SumOver([k \in DOMAIN probe'.in[2] |-> probe'.in[2][k].quantity],
                     DOMAIN probe'.in[2]) < 10
         \/ \E k \in DOMAIN probe'.in[2] : probe'.in[2][k].quantity > 500
         \/ probe'.in[1] < 14)
     => /\ probe'.out = "OrderValidationError"
        /\ store'.orders = store.orders
        /\ store'.line_items = store.line_items
        /\ store'.inventory = store.inventory]_vars

\* a request with a line item of more than 500 has been refused, with
\* an order in the store already
C31_Witness ==
  /\ probe.op = "create_order"
  /\ probe.out = "OrderValidationError"
  /\ \E k \in DOMAIN probe.in[2] : probe.in[2][k].quantity > 500
  /\ probe.in[1] >= 14
  /\ store.orders /= <<>>

\* a request below the minimum total has been refused
C31_WitnessBelowMinimum ==
  /\ probe.op = "create_order"
  /\ probe.out = "OrderValidationError"
  /\ TotalQuantity(probe.in[2]) < 10
  /\ probe.in[1] >= 14

\* a request with too early a delivery date has been refused
C31_WitnessTooEarly ==
  /\ probe.op = "create_order"
  /\ probe.out = "OrderValidationError"
  /\ TotalQuantity(probe.in[2]) >= 10
  /\ probe.in[1] < 14


(* ------------------- the session of a chat request -------------------- *)
\* C32: a chat request without a session id makes a new conversation for
\* the user and returns its id, which no conversation had before; a
\* request with a session id the user has no conversation for is an
\* error: the agent runs no message on that id and no conversation is
\* made under it.
C32_UnknownSessionIsError ==
  [][probe'.op = "chat_completions" =>
       LET user_id == probe'.in[1]
           session_id == probe'.in[2]
           key == <<user_id, session_id>>
       IN
       /\ session_id = Null =>
            /\ probe'.out.status = 200
            /\ \A k \in DOMAIN conversations.table : k[2] /= probe'.out.session_id
            /\ <<user_id, probe'.out.session_id>> \in DOMAIN conversations'.table
       /\ (session_id /= Null /\ session_id /= ""
           /\ key \notin DOMAIN conversations.table)
          => /\ probe'.out.status /= 200
             /\ conversations'.threads = conversations.threads
             /\ key \notin DOMAIN conversations'.table]_vars


(* ------------------- turns that change nothing ------------------------ *)
\* the part of a checkpoint that belongs to the modification
ModificationPart(cp) ==
  [pending_modification |-> cp.pending_modification,
   pending_modification_id |-> cp.pending_modification_id,
   pending_modification_status |-> cp.pending_modification_status,
   policy_evaluation |-> cp.policy_evaluation,
   policy_confirmation_status |-> cp.policy_confirmation_status]

\* the turn was routed to one of the three answering nodes
AnsweringRoutes ==
  {"order_summary", "off_topic_response", "unclear_intent_response"}

\* C33: a turn routed as ORDER_INQUIRY, OFF_TOPIC or UNCLEAR leaves
\* pending_modification, its id and status, policy_evaluation and
\* policy_confirmation_status as they were when the turn began, invokes no
\* mutation and leaves order, line items and inventory alone.
C33_AnsweringTurnKeepsPending ==
  [][turn'.ran /\ turn'.route \in AnsweringRoutes =>
       /\ turn'.intent \in {"ORDER_INQUIRY", "OFF_TOPIC", "UNCLEAR"}
       /\ ModificationPart(checkpoint') = ModificationPart(checkpoint)
       /\ turn'.mutation_calls = 0
       /\ UNCHANGED <<inventory, line_items, order>>]_vars

\* an order inquiry has been answered while a modification is pending,
\* and the modification is pending still
C33_Witness ==
  /\ turn.ran /\ turn.route = "order_summary"
  /\ turn.start_status = "pending"
  /\ checkpoint.pending_modification_status = "pending"
  /\ ~IsNone(checkpoint.pending_modification)


(* ------------------- the change type the policy is asked about -------- *)
\* the quantities of the snapshot's line items that the modification names
CurrentQuantities(modification, order_details) ==
  {order_details.line_items[k].quantity :
     k \in {j \in DOMAIN order_details.line_items :
              /\ Lower(order_details.line_items[j].product_name)
                   = Lower(modification.product_name)
              /\ Lower(order_details.line_items[j].size)
                   = Lower(modification.size_name)
              /\ Lower(order_details.line_items[j].color)
                   = Lower(modification.color_name)}}

ChangeTypeAsked == probe.op = "determine_change_type" /\ probe.done

\* the claim as it was made: a quantity that is given and equal to the
\* current one counts as unchanged, so that a new size or color asked for
\* with it makes a SIZE_CHANGE or COLOR_CHANGE, and a tie with nothing
\* else asked for a QUANTITY_DECREASE.
C34_ChangeTypeAsClaimed ==
  ChangeTypeAsked =>
    LET m == probe.in[1]
        current == CurrentQuantities(m, probe.in[2])
        given == ~IsNone(m.new_quantity)
        unchanged == ~given \/ (current /= {} /\ \A q \in current : Val(m.new_quantity) = q)
    IN
    IF m.action = "remove_item" THEN probe.out = "remove_item"
    ELSE
      /\ (given /\ current /= {} /\ \A q \in current : Val(m.new_quantity) > q)
           => probe.out = "quantity_increase"
      /\ (given /\ (current = {} \/ \A q \in current : Val(m.new_quantity) < q))
           => probe.out = "quantity_decrease"
      /\ (given /\ unchanged /\ m.new_size = Null /\ m.new_color = Null)
           => probe.out = "quantity_decrease"
      /\ (unchanged /\ m.new_size /= Null) => probe.out = "size_change"
      /\ (unchanged /\ m.new_size = Null /\ m.new_color /= Null)
           => probe.out = "color_change"

\* C34: the change type is REMOVE_ITEM for REMOVE_ITEM; for MODIFY with a
\* new_quantity it is QUANTITY_INCREASE when new_quantity is greater than
\* the current quantity of the line item named, and QUANTITY_DECREASE when
\* it is smaller or equal or when no line item is found, whatever size or
\* color is asked for with it; for MODIFY without a new_quantity it is
\* SIZE_CHANGE when a new size is asked for and COLOR_CHANGE when only a
\* new color is.
C34_ChangeType ==
  ChangeTypeAsked =>
    LET m == probe.in[1]
        current == CurrentQuantities(m, probe.in[2])
    IN
    IF m.action = "remove_item" THEN probe.out = "remove_item"
    ELSE IF ~IsNone(m.new_quantity)
    THEN IF current /= {} /\ \A q \in current : Val(m.new_quantity) > q
         THEN probe.out = "quantity_increase"
         ELSE probe.out = "quantity_decrease"
    ELSE IF m.new_size /= Null THEN probe.out = "size_change"
    ELSE m.new_color /= Null /\ probe.out = "color_change"

\* a new size asked for together with the quantity the line item has:
\* the change type is QUANTITY_DECREASE
C34_Witness ==
  /\ ChangeTypeAsked
  /\ probe.in[1].action = "modify"
  /\ probe.in[1].new_size = "Medium"
  /\ ~IsNone(probe.in[1].new_quantity)
  /\ CurrentQuantities(probe.in[1], probe.in[2]) = {Val(probe.in[1].new_quantity)}
  /\ probe.out = "quantity_decrease"


(* ------------------- the status the policy is asked about ------------- *)
\* C35: the order status handed to evaluate_change in a turn is the
\* status the order has at that time, also when the status has changed
\* since the turn in which the modification was extracted.
C35_PolicySeesCurrentStatus ==
  [][(order'.status = order.status /\ turn'.ran /\ turn'.policy_calls > 0)
       => turn'.policy_status = order.status]_vars


(* ------------------- the checkpoint between the turns ----------------- *)
\* C36: between the turns pending_modification is there exactly when
\* pending_modification_status is PENDING, and when
\* policy_confirmation_status is PENDING a modification is pending and
\* the policy_evaluation kept is CONDITIONAL.
C36_CheckpointCoherent ==
  /\ ~IsNone(checkpoint.pending_modification)
       <=> checkpoint.pending_modification_status = "pending"
  /\ checkpoint.policy_confirmation_status = "pending" =>
       /\ ~IsNone(checkpoint.pending_modification)
       /\ checkpoint.pending_modification_status = "pending"
       /\ ~IsNone(checkpoint.policy_evaluation)
       /\ Val(checkpoint.policy_evaluation).decision = "conditional"


\* a policy condition waits for its answer
C36_Witness ==
  /\ turn.ran
  /\ checkpoint.policy_confirmation_status = "pending"
  /\ checkpoint.pending_modification_status = "pending"

\* a modification has been executed and is there no more
C36_WitnessExecuted ==
  /\ turn.ran /\ turn.mutation_calls > 0
  /\ checkpoint.pending_modification_status = "executed"
  /\ IsNone(checkpoint.pending_modification)


(* ------------------- what the rows hold reserved ---------------------- *)
\* the quantity the line items of the orders that are not CANCELLED hold
\* on an inventory row
HeldByLiveOrders(st, i) ==
  SumOver([li \in DOMAIN st.line_items |->
             IF /\ st.line_items[li].inventory_id = i
                /\ st.orders[st.line_items[li].order_id].status /= "CANCELLED"
             THEN st.line_items[li].quantity ELSE 0],
          DOMAIN st.line_items)

\* C37: from rows with nothing reserved and no orders, after any
\* sequence of create_order, modify_line_item, remove_line_item and
\* cancel_order the reserved_qty of every row is the sum of the quantities
\* of the line items on that row in orders that are not CANCELLED.
C37_ReservedIsSumOfLineItems ==
  \A i \in InvIds : store.inventory[i].reserved_qty = HeldByLiveOrders(store, i)


\* C38: after any sequence of create_order, modify_line_item (with any
\* new_quantity the agent can pass, 0 and negative values included),
\* remove_line_item and cancel_order, every inventory row has
\* available_qty >= 0 and reserved_qty >= 0 and every line item has
\* quantity >= 1.
C38_QuantitiesStayInRange ==
  /\ \A i \in InvIds : /\ store.inventory[i].available_qty >= 0
                       /\ store.inventory[i].reserved_qty >= 0
  /\ \A li \in DOMAIN store.line_items : store.line_items[li].quantity >= 1


\* C39: the quantity rules of order creation (total quantity of the order
\* >= MIN_ORDER_QUANTITY, every line item quantity <=
\* MAX_LINE_ITEM_QUANTITY) hold for every order that is not CANCELLED
\* after any sequence of successful modify_line_item and remove_line_item
\* calls.
C39_CreationRulesKept ==
  \A o \in DOMAIN store.orders :
    (store.orders[o].status /= "CANCELLED") =>
      /\ TotalQuantity(LineItemsOf(store, o)) >= MIN_ORDER_QUANTITY
      /\ \A li \in DOMAIN LineItemsOf(store, o) :
            store.line_items[li].quantity <= MAX_LINE_ITEM_QUANTITY


\* C40: cancel_order on an order that is already CANCELLED releases no
\* inventory: available_qty and reserved_qty of every row and the order's
\* status history are after the second cancel what they were after the
\* first.
C40_SecondCancelChangesNothing ==
  [][(probe'.op = "cancel_order"
        /\ store.orders[probe'.in[1]].status = "CANCELLED")
       => /\ store'.inventory = store.inventory
          /\ store'.orders[probe'.in[1]].history
               = store.orders[probe'.in[1]].history]_vars

====
